---- MODULE Spec2Model ----
(***************************************************************************)
(* Carbon-AI: the Planner -> Executor -> Critic loop of CarbonRankerAgent, *)
(* the field and record normalizers it runs, and the store (raw_ingest,   *)
(* normalized_events, processing_log, rollups, rankings) it writes.        *)
(*                                                                         *)
(* Text fields are sequences of one-character strings; Python floats are  *)
(* exact rationals [n, d] in lowest terms with d > 0.                      *)
(***************************************************************************)
EXTENDS Integers, Sequences, FiniteSets, TLC

(* ------------------------------ text ---------------------------------- *)

Digits == {"0", "1", "2", "3", "4", "5", "6", "7", "8", "9"}

DigitVal(c) ==
  CASE c = "0" -> 0 [] c = "1" -> 1 [] c = "2" -> 2 [] c = "3" -> 3
    [] c = "4" -> 4 [] c = "5" -> 5 [] c = "6" -> 6 [] c = "7" -> 7
    [] c = "8" -> 8 [] c = "9" -> 9

UpperCase == <<"A","B","C","D","E","F","G","H","I","J","K","L","M",
               "N","O","P","Q","R","S","T","U","V","W","X","Y","Z">>
LowerCase == <<"a","b","c","d","e","f","g","h","i","j","k","l","m",
               "n","o","p","q","r","s","t","u","v","w","x","y","z">>

\* str.lower() on one character
LowerChar(c) ==
  IF \E i \in 1..Len(UpperCase) : UpperCase[i] = c
    THEN LowerCase[CHOOSE i \in 1..Len(UpperCase) : UpperCase[i] = c]
    ELSE c

\* str.lower()
Lower(s) == [i \in 1..Len(s) |-> LowerChar(s[i])]

IsSpace(c) == c = " "

\* str.strip()
RECURSIVE LStrip(_)
LStrip(s) == IF s # <<>> /\ IsSpace(Head(s)) THEN LStrip(Tail(s)) ELSE s

RECURSIVE RStrip(_)
RStrip(s) ==
  IF s # <<>> /\ IsSpace(s[Len(s)]) THEN RStrip(SubSeq(s, 1, Len(s) - 1)) ELSE s

Strip(s) == LStrip(RStrip(s))

\* t is a prefix of s from position i
MatchAt(s, i, t) ==
  /\ i + Len(t) - 1 <= Len(s)
  /\ \A j \in 1..Len(t) : s[i + j - 1] = t[j]

\* Python's  t in s
Contains(s, t) == \E i \in 1..(Len(s) + 1) : MatchAt(s, i, t)

\* length of the maximal run of characters of set cs starting at position i
RECURSIVE RunLen(_, _, _)
RunLen(s, i, cs) ==
  IF i <= Len(s) /\ s[i] \in cs THEN 1 + RunLen(s, i + 1, cs) ELSE 0

SpaceSet == {" "}

\* re.sub(r'\s*(w1|w2|...)\s*', '', s): words is a sequence of alternatives tried
\* in order at each position after the greedy \s*; ci: flags=re.IGNORECASE
RECURSIVE FirstAlt(_, _, _, _)
FirstAlt(s, i, words, ci) ==
  IF words = <<>> THEN 0
  ELSE IF MatchAt(IF ci THEN Lower(s) ELSE s, i, Head(words))
         THEN Len(Head(words))
         ELSE FirstAlt(s, i, Tail(words), ci)

RECURSIVE SubWords(_, _, _, _)
SubWords(s, i, words, ci) ==
  IF i > Len(s) THEN <<>>
  ELSE LET sp  == RunLen(s, i, SpaceSet)
           w   == FirstAlt(s, i + sp, words, ci)
           sp2 == RunLen(s, i + sp + w, SpaceSet)
       IN IF w > 0
            THEN SubWords(s, i + sp + w + sp2, words, ci)
            ELSE <<s[i]>> \o SubWords(s, i + 1, words, ci)

\* re.sub(r'%', '', s) and str.replace(',', '')
RemoveChar(s, c) == SelectSeq(s, LAMBDA x : x # c)

\* re.search(cs+, s): [start, len] of the first maximal run of characters of cs,
\* len = 0 when there is none
RECURSIVE SearchRun(_, _, _)
SearchRun(s, i, cs) ==
  IF i > Len(s) THEN [start |-> 0, len |-> 0]
  ELSE IF s[i] \in cs THEN [start |-> i, len |-> RunLen(s, i, cs)]
  ELSE SearchRun(s, i + 1, cs)

NumChars == Digits \cup {"."}
IntChars == Digits \cup {","}

(* ---------------------------- numbers --------------------------------- *)

Abs(x) == IF x < 0 THEN -x ELSE x

RECURSIVE GCD(_, _)
GCD(a, b) == IF b = 0 THEN a ELSE GCD(b, a % b)

\* the rational n/d in lowest terms, d > 0
Rat(n, d) ==
  LET g == GCD(Abs(n), Abs(d))
      s == IF d < 0 THEN -1 ELSE 1
  IN [n |-> s * (n \div g), d |-> s * (d \div g)]

RInt(k) == [n |-> k, d |-> 1]

\* products and sums cross-reduce first, so that no intermediate value is
\* larger than the result
RMul(a, b) ==
  LET g1 == GCD(Abs(a.n), b.d)
      g2 == GCD(Abs(b.n), a.d)
  IN [n |-> (a.n \div g1) * (b.n \div g2), d |-> (a.d \div g2) * (b.d \div g1)]
RInv(a) == IF a.n < 0 THEN [n |-> -a.d, d |-> -a.n] ELSE [n |-> a.d, d |-> a.n]
RDiv(a, b) == RMul(a, RInv(b))
RNeg(a) == [n |-> -a.n, d |-> a.d]
RAdd(a, b) ==
  LET g == GCD(a.d, b.d)
  IN Rat(a.n * (b.d \div g) + b.n * (a.d \div g), (a.d \div g) * b.d)
RSub(a, b) == RAdd(a, RNeg(b))
\* floor and the fractional numerator of a
RFloor(a) == IF a.n >= 0 THEN a.n \div a.d ELSE -((-a.n + a.d - 1) \div a.d)
RFrac(a) == a.n - RFloor(a) * a.d
RLt(a, b) ==
  IF RFloor(a) # RFloor(b) THEN RFloor(a) < RFloor(b)
  ELSE RFrac(a) * b.d < RFrac(b) * a.d
RLe(a, b) == ~RLt(b, a)
RMax(a, b) == IF RLt(a, b) THEN b ELSE a
RMin(a, b) == IF RLt(b, a) THEN b ELSE a

RECURSIVE Pow10(_)
Pow10(k) == IF k = 0 THEN 1 ELSE 10 * Pow10(k - 1)

RECURSIVE DigitsVal(_)
DigitsVal(s) ==
  IF s = <<>> THEN 0 ELSE 10 * DigitsVal(SubSeq(s, 1, Len(s) - 1)) + DigitVal(s[Len(s)])

\* float(s) for s over [0-9.]: ok = FALSE stands for ValueError
ParseFloat(s) ==
  LET dots == {i \in 1..Len(s) : s[i] = "."}
      digs == RemoveChar(s, ".")
  IN IF Cardinality(dots) > 1 \/ digs = <<>>
       THEN [ok |-> FALSE, v |-> RInt(0)]
       ELSE LET frac == IF dots = {} THEN 0
                        ELSE Len(s) - (CHOOSE i \in dots : TRUE)
            IN [ok |-> TRUE, v |-> Rat(DigitsVal(digs), Pow10(frac))]

\* int(s) for s over [0-9]
ParseInt(s) ==
  IF s = <<>> THEN [ok |-> FALSE, v |-> 0] ELSE [ok |-> TRUE, v |-> DigitsVal(s)]

(* ----------------------- field normalizers ----------------------------- *)

\* the note a field normalizer returns beside the value:
\* {} -> "none", {"imputed": ...} -> "imputed", {"error": ...} -> "error"
NoteNone == "none"
NoteImputed == "imputed"
NoteError == "error"

\* a normalizer's return: value v, note log; raised = TRUE stands for an
\* exception leaving the function
Ret(v, log) == [v |-> v, log |-> log, raised |-> FALSE]
Raised == [v |-> RInt(0), log |-> NoteNone, raised |-> TRUE]

\* not raw_value or raw_value.strip() == ""
IsBlank(raw_value) == Strip(raw_value) = <<>>

\* the text re.search(cs+, s) matched
RunText(s, cs) ==
  LET m == SearchRun(s, 1, cs) IN SubSeq(s, m.start, m.start + m.len - 1)

HasRun(s, cs) == SearchRun(s, 1, cs).len > 0

default_pue == Rat(13, 10)
default_gpu_power == Rat(4, 10)
imputation_penalty == 10

HourWords == << <<"h","r","s">>, <<"h","r">>,
                <<"h","o","u","r","s">>, <<"h","o","u","r">> >>

normalize_gpu_hours(raw_value) ==
  IF IsBlank(raw_value) THEN Ret(RInt(0), NoteError)
  ELSE LET cleaned == SubWords(Strip(raw_value), 1, HourWords, TRUE)
       IN IF HasRun(cleaned, NumChars)
            THEN LET f == ParseFloat(RunText(cleaned, NumChars))
                 IN IF f.ok THEN Ret(f.v, NoteNone) ELSE Ret(RInt(0), NoteError)
            ELSE Ret(RInt(0), NoteError)

normalize_energy(raw_value) ==
  IF IsBlank(raw_value) THEN Ret(RInt(0), NoteImputed)
  ELSE LET cleaned == Strip(raw_value)
           f       == ParseFloat(RunText(cleaned, NumChars))
       IN IF ~HasRun(cleaned, NumChars) THEN Ret(RInt(0), NoteError)
          ELSE IF ~f.ok THEN Raised
          ELSE IF Contains(Lower(cleaned), <<"m","w","h">>)
                 THEN Ret(RMul(f.v, RInt(1000)), NoteNone)
                 ELSE Ret(f.v, NoteNone)

TokenWords == << <<"t","o","k","e","n","s">>, <<"t","o","k","e","n">>,
                 <<"t","o","k">> >>

normalize_tokens(raw_value) ==
  IF IsBlank(raw_value) THEN Ret(RInt(0), NoteImputed)
  ELSE LET cleaned == SubWords(Lower(Strip(raw_value)), 1, TokenWords, FALSE)
           m       == SearchRun(cleaned, 1, NumChars)
           f       == ParseFloat(SubSeq(cleaned, m.start, m.start + m.len - 1))
           after   == m.start + m.len + RunLen(cleaned, m.start + m.len, SpaceSet)
           multiplier == IF after <= Len(cleaned) /\ cleaned[after] \in {"k", "m", "b"}
                           THEN cleaned[after] ELSE ""
       IN IF m.len = 0 THEN Ret(RInt(0), NoteError)
          ELSE IF ~f.ok THEN Raised
          ELSE IF multiplier = "k" THEN Ret(RMul(f.v, RInt(1000)), NoteNone)
          ELSE IF multiplier = "m" THEN Ret(RMul(f.v, RInt(1000000)), NoteNone)
          ELSE IF multiplier = "b" THEN Ret(RMul(f.v, RInt(1000000000)), NoteNone)
          ELSE Ret(f.v, NoteNone)

CallWords == << <<"c","a","l","l","s">>, <<"c","a","l","l">>,
                <<"r","e","q","u","e","s","t","s">>,
                <<"r","e","q","u","e","s","t">> >>

normalize_api_calls(raw_value) ==
  IF IsBlank(raw_value) THEN Ret(RInt(0), NoteImputed)
  ELSE LET cleaned == SubWords(Strip(raw_value), 1, CallWords, TRUE)
       IN IF HasRun(cleaned, IntChars)
            THEN LET k == ParseInt(RemoveChar(RunText(cleaned, IntChars), ","))
                 IN IF k.ok THEN Ret(RInt(k.v), NoteNone) ELSE Ret(RInt(0), NoteError)
            ELSE Ret(RInt(0), NoteError)

normalize_pue(raw_value) ==
  IF IsBlank(raw_value) THEN Ret(default_pue, NoteImputed)
  ELSE LET cleaned == Strip(raw_value)
       IN IF HasRun(cleaned, NumChars)
            THEN LET f == ParseFloat(RunText(cleaned, NumChars))
                 IN IF ~f.ok THEN Ret(default_pue, NoteImputed)
                    ELSE IF RLt(f.v, RInt(1)) \/ RLt(RInt(3), f.v)
                           THEN Ret(default_pue, NoteImputed)
                    ELSE Ret(f.v, NoteNone)
            ELSE Ret(default_pue, NoteImputed)

\* a variant of normalize_utilization that notes a blank text as an error
normalize_utilization_blank_error(raw_value) ==
  IF IsBlank(raw_value) THEN Ret(RInt(0), NoteError)
  ELSE LET cleaned == RemoveChar(Strip(raw_value), "%")
       IN IF HasRun(cleaned, NumChars)
            THEN LET f == ParseFloat(RunText(cleaned, NumChars))
                 IN IF ~f.ok THEN Ret(RInt(0), NoteError)
                    ELSE IF RLt(RInt(100), f.v) THEN Ret(RInt(100), NoteImputed)
                    ELSE Ret(f.v, NoteNone)
            ELSE Ret(RInt(0), NoteError)

\* a variant of normalize_utilization that returns values above 100 as read
normalize_utilization_uncapped(raw_value) ==
  IF IsBlank(raw_value) THEN Ret(RInt(0), NoteImputed)
  ELSE LET cleaned == RemoveChar(Strip(raw_value), "%")
       IN IF HasRun(cleaned, NumChars)
            THEN LET f == ParseFloat(RunText(cleaned, NumChars))
                 IN IF ~f.ok THEN Ret(RInt(0), NoteError) ELSE Ret(f.v, NoteNone)
            ELSE Ret(RInt(0), NoteError)

normalize_utilization(raw_value) ==
  IF IsBlank(raw_value) THEN Ret(RInt(0), NoteImputed)
  ELSE LET cleaned == RemoveChar(Strip(raw_value), "%")
       IN IF HasRun(cleaned, NumChars)
            THEN LET f == ParseFloat(RunText(cleaned, NumChars))
                 IN IF ~f.ok THEN Ret(RInt(0), NoteError)
                    ELSE IF RLt(RInt(100), f.v) THEN Ret(RInt(100), NoteImputed)
                    ELSE Ret(f.v, NoteNone)
            ELSE Ret(RInt(0), NoteError)

impute_missing_energy(gpu_hours, utilization) ==
  IF RLe(gpu_hours, RInt(0)) \/ RLe(utilization, RInt(0)) THEN RInt(0)
  ELSE RMul(RMul(gpu_hours, default_gpu_power), RDiv(utilization, RInt(100)))

calculate_total_energy(it_kwh, pue) == RMul(it_kwh, pue)

\* a variant of calculate_emissions that reports kilograms
calculate_emissions_kg(total_kwh, intensity_g_per_kwh) ==
  RDiv(RMul(total_kwh, intensity_g_per_kwh), RInt(1000))

calculate_emissions(total_kwh, intensity_g_per_kwh) ==
  RDiv(RMul(total_kwh, intensity_g_per_kwh), RInt(1000000))

\* a variant of calculate_data_quality that charges an error like an imputation
calculate_data_quality_flat(imputation_log) ==
  LET count == Cardinality({k \in DOMAIN imputation_log :
                              imputation_log[k] \in {NoteImputed, NoteError}})
      base_score == 100 - count * imputation_penalty
  IN IF base_score < 0 THEN 0 ELSE base_score

\* imputation_log: a function from field names to notes
calculate_data_quality(imputation_log) ==
  LET imputation_count == Cardinality({k \in DOMAIN imputation_log :
                                         imputation_log[k] = NoteImputed})
      error_count == Cardinality({k \in DOMAIN imputation_log :
                                    imputation_log[k] = NoteError})
      base_score == 100 - imputation_count * imputation_penalty
                        - error_count * (imputation_penalty * 2)
  IN IF base_score < 0 THEN 0 ELSE base_score

(* ------------------------ record normalizer --------------------------- *)

\* Python's None and the empty dict {} (both falsy): the empty function
EmptyDict == <<>>

\* d.get(k, default)
Get(d, k, default) == IF k \in DOMAIN d THEN d[k] ELSE default

\* a variant of normalized_result without the critical-error checks
normalized_result_lenient(raw_record, grid_intensity, g, t, a, p, u, it_kwh, imputation_log) ==
  LET total_kwh == calculate_total_energy(it_kwh, p.v)
      quality == calculate_data_quality(imputation_log)
  IN [success |-> TRUE,
      data |-> [company |-> raw_record.company,
                month |-> raw_record.month,
                region |-> raw_record.region,
                gpu_hours |-> g.v,
                utilization |-> u.v,
                it_kwh |-> it_kwh,
                total_kwh |-> total_kwh,
                intensity_g_per_kwh |-> grid_intensity,
                tco2e |-> calculate_emissions(total_kwh, grid_intensity),
                tokens |-> t.v,
                api_calls |-> a.v,
                pue_used |-> p.v,
                data_quality |-> RInt(quality)],
      quality_score |-> RInt(quality),
      imputation_log |-> imputation_log,
      errors |-> <<>>]

\* normalize_record from the energy imputation on: total energy, emissions,
\* quality, the critical-error checks and the result's data
normalized_result(raw_record, grid_intensity, g, t, a, p, u, it_kwh, imputation_log) ==
  LET total_kwh == calculate_total_energy(it_kwh, p.v)
      quality == calculate_data_quality(imputation_log)
      errors == (IF RLe(g.v, RInt(0)) THEN <<"Invalid or missing GPU hours">> ELSE <<>>)
             \o (IF RLe(total_kwh, RInt(0)) THEN <<"Invalid energy consumption">> ELSE <<>>)
             \o (IF RLt(RInt(100), u.v) THEN <<"Utilization exceeds 100%">> ELSE <<>>)
  IN [success |-> errors = <<>>,
      data |-> [company |-> raw_record.company,
                month |-> raw_record.month,
                region |-> raw_record.region,
                gpu_hours |-> g.v,
                utilization |-> u.v,
                it_kwh |-> it_kwh,
                total_kwh |-> total_kwh,
                intensity_g_per_kwh |-> grid_intensity,
                tco2e |-> calculate_emissions(total_kwh, grid_intensity),
                tokens |-> t.v,
                api_calls |-> a.v,
                pue_used |-> p.v,
                data_quality |-> RInt(quality)],
      quality_score |-> RInt(quality),
      imputation_log |-> imputation_log,
      errors |-> errors]

\* normalize_record once the six fields are normalized (g, e, t, a, p, u are
\* the normalizers' returns); only normalize_energy and normalize_tokens can
\* raise (float() outside a try), and then data stays {}
normalized_fields(raw_record, grid_intensity, g, e, t, a, p, u) ==
  LET field_log == [gpu_hours |-> g.log, energy |-> e.log, tokens |-> t.log,
                    api_calls |-> a.log, pue |-> p.log, utilization |-> u.log]
  IN
  IF e.raised
    THEN [success |-> FALSE, data |-> EmptyDict, quality_score |-> RInt(0),
          imputation_log |-> [gpu_hours |-> g.log],
          errors |-> <<"Normalization error">>]
  ELSE IF t.raised
    THEN [success |-> FALSE, data |-> EmptyDict, quality_score |-> RInt(0),
          imputation_log |-> [gpu_hours |-> g.log, energy |-> e.log],
          errors |-> <<"Normalization error">>]
  ELSE IF RLe(e.v, RInt(0))
    THEN normalized_result(raw_record, grid_intensity, g, t, a, p, u,
                           impute_missing_energy(g.v, u.v),
                           field_log @@ [energy_imputation |-> NoteImputed])
  ELSE normalized_result(raw_record, grid_intensity, g, t, a, p, u, e.v, field_log)

\* NormalizationResult of normalize_record
normalize_record(raw_record, grid_intensity) ==
  normalized_fields(raw_record, grid_intensity,
                    normalize_gpu_hours(raw_record.gpu_hours_raw),
                    normalize_energy(raw_record.energy_raw),
                    normalize_tokens(raw_record.tokens_raw),
                    normalize_api_calls(raw_record.api_calls_raw),
                    normalize_pue(raw_record.pue_raw),
                    normalize_utilization(raw_record.utilization_raw))

(* ------------------------------ planner ------------------------------- *)

\* issue_patterns, in the order the dict is iterated
issue_patterns == <<
  [type |-> "missing_energy", field |-> "energy_raw", severity |-> "high",
   action |-> "impute_from_gpu_hours"],
  [type |-> "missing_pue", field |-> "pue_raw", severity |-> "medium",
   action |-> "use_default_pue"],
  [type |-> "missing_tokens", field |-> "tokens_raw", severity |-> "medium",
   action |-> "mark_na"],
  [type |-> "unknown_region", field |-> "region", severity |-> "medium",
   action |-> "use_market_average"],
  [type |-> "invalid_utilization", field |-> "utilization_raw", severity |-> "high",
   action |-> "validate_and_fix"],
  [type |-> "mixed_units", field |-> "energy_raw", severity |-> "low",
   action |-> "normalize_units"],
  [type |-> "fuzzy_tokens", field |-> "tokens_raw", severity |-> "low",
   action |-> "parse_tokens"] >>

\* float(s) for a whole string: surrounding blanks and one sign allowed
\* (exponents, inf, nan and digit underscores are outside the sampled texts)
FloatFull(s) ==
  LET t == Strip(s)
      neg == t # <<>> /\ Head(t) = "-"
      body == IF t # <<>> /\ Head(t) \in {"-", "+"} THEN Tail(t) ELSE t
      f == ParseFloat(body)
  IN IF body = <<>> \/ \E i \in 1..Len(body) : body[i] \notin NumChars
       THEN [ok |-> FALSE, v |-> RInt(0)]
       ELSE [ok |-> f.ok, v |-> IF neg THEN RSub(RInt(0), f.v) ELSE f.v]

is_valid_utilization(value) ==
  IF IsBlank(value) THEN FALSE
  ELSE LET f == FloatFull(RemoveChar(Strip(value), "%"))
       IN f.ok /\ RLe(RInt(0), f.v) /\ RLe(f.v, RInt(100))

severity_levels(sev) ==
  CASE sev = "low" -> 0 [] sev = "medium" -> 1 [] sev = "high" -> 2
    [] sev = "critical" -> 3

update_severity(current, new) ==
  IF severity_levels(new) > severity_levels(current) THEN new ELSE current

RegionUnknown == "UNKNOWN"

\* whether the loop body of detect_issues appends an issue for this pattern:
\* the first branch whose condition holds decides, the later ones are skipped
PatternFires(config, raw_record) ==
  LET field_value == raw_record[config.field]
  IN IF config.field = "region" /\ field_value = RegionUnknown THEN TRUE
     ELSE IF config.field \in {"energy_raw", "pue_raw", "tokens_raw"}
            THEN IsBlank(field_value)
     ELSE IF config.field = "utilization_raw"
            THEN ~is_valid_utilization(field_value)
     ELSE FALSE

RECURSIVE MaxSeverity(_)
MaxSeverity(issues) ==
  IF issues = <<>> THEN "low"
  ELSE update_severity(MaxSeverity(SubSeq(issues, 1, Len(issues) - 1)),
                       issues[Len(issues)].severity)

\* confidence is kept in hundredths (0.9 -> 90)
calculate_confidence(issues, severity) ==
  LET issue_penalty == IF Len(issues) * 10 < 50 THEN Len(issues) * 10 ELSE 50
      severity_penalty == severity_levels(severity) * 10
      c == 90 - issue_penalty - severity_penalty
  IN IF c < 10 THEN 10 ELSE c

\* detect_issues, given the patterns whose loop body appended an issue
detected(fired) ==
  LET issues == [i \in 1..Len(fired) |->
                   [type |-> fired[i].type, field |-> fired[i].field,
                    severity |-> fired[i].severity]]
      max_severity == MaxSeverity(issues)
  IN [issues |-> issues,
      severity |-> max_severity,
      recommended_actions |-> {fired[i].action : i \in 1..Len(fired)},
      confidence |-> calculate_confidence(issues, max_severity)]

detect_issues(raw_record) ==
  detected(SelectSeq(issue_patterns, LAMBDA c : PatternFires(c, raw_record)))

get_action_for_issue(issue_type) ==
  IF \E i \in 1..Len(issue_patterns) : issue_patterns[i].type = issue_type
    THEN issue_patterns[CHOOSE i \in 1..Len(issue_patterns) :
                          issue_patterns[i].type = issue_type].action
    ELSE "manual_review"

plan_normalization_strategy(detection_result) ==
  LET act(issue) == [action |-> get_action_for_issue(issue.type),
                     field |-> issue.field]
      pri == SelectSeq(detection_result.issues,
                       LAMBDA i : i.severity \in {"critical", "high"})
      fal == SelectSeq(detection_result.issues,
                       LAMBDA i : i.severity \notin {"critical", "high"})
      penalty == Len(detection_result.issues) * 10
  IN [priority_actions |-> [i \in 1..Len(pri) |-> act(pri[i])],
      fallback_actions |-> [i \in 1..Len(fal) |-> act(fal[i])],
      expected_quality |-> IF 100 - penalty < 0 THEN 0 ELSE 100 - penalty]

(* ------------------------------ executor ------------------------------ *)

\* the log entry _apply_action appends for one planned action
apply_action(action) ==
  [stage |-> "action_application", action |-> action.action, field |-> action.field]

\* a variant of execution_outcome that passes on whatever data the normalizer
\* built, critical errors or not
execution_outcome_lenient(strategy, normalization_result) ==
  [success |-> normalization_result.data # EmptyDict,
   normalized_data |-> normalization_result.data,
   execution_log |-> <<>>,
   errors |-> normalization_result.errors]

\* a variant of execution_outcome that also fails on a quality below 70
execution_outcome_strict(strategy, normalization_result) ==
  IF normalization_result.success
     /\ RLe(RInt(70), normalization_result.quality_score)
    THEN [success |-> TRUE, normalized_data |-> normalization_result.data,
          execution_log |-> <<>>, errors |-> <<>>]
    ELSE [success |-> FALSE, normalized_data |-> EmptyDict,
          execution_log |-> <<>>, errors |-> normalization_result.errors]

\* a variant of execution_outcome in which a planned mark_na action is carried
\* out on the data: the token count is set to 0
execution_outcome_acting(strategy, normalization_result) ==
  LET start == << [stage |-> "normalization_start",
                   action |-> "begin_normalization", field |-> ""] >>
      pri == [i \in 1..Len(strategy.priority_actions) |->
                apply_action(strategy.priority_actions[i])]
      fal == [i \in 1..Len(strategy.fallback_actions) |->
                apply_action(strategy.fallback_actions[i])]
      marked == \E i \in 1..Len(fal) : fal[i].action = "mark_na"
  IN IF normalization_result.success
       THEN [success |-> TRUE,
             normalized_data |->
               IF marked THEN [normalization_result.data EXCEPT !.tokens = RInt(0)]
               ELSE normalization_result.data,
             execution_log |-> start \o pri
                \o << [stage |-> "normalization_complete",
                       action |-> "normalization_success", field |-> ""] >>
                \o fal,
             errors |-> <<>>]
       ELSE [success |-> FALSE,
             normalized_data |-> EmptyDict,
             execution_log |-> start \o pri
                \o << [stage |-> "normalization_failed",
                       action |-> "normalization_error", field |-> ""] >>,
             errors |-> normalization_result.errors]

\* execute_normalization from the return of normalize_record on
execution_outcome(strategy, normalization_result) ==
  LET start == << [stage |-> "normalization_start",
                   action |-> "begin_normalization", field |-> ""] >>
      pri == [i \in 1..Len(strategy.priority_actions) |->
                apply_action(strategy.priority_actions[i])]
      fal == [i \in 1..Len(strategy.fallback_actions) |->
                apply_action(strategy.fallback_actions[i])]
  IN IF normalization_result.success
       THEN [success |-> TRUE,
             normalized_data |-> normalization_result.data,
             execution_log |-> start \o pri
                \o << [stage |-> "normalization_complete",
                       action |-> "normalization_success", field |-> ""] >>
                \o fal,
             errors |-> <<>>]
       ELSE [success |-> FALSE,
             normalized_data |-> EmptyDict,
             execution_log |-> start \o pri
                \o << [stage |-> "normalization_failed",
                       action |-> "normalization_error", field |-> ""] >>,
             errors |-> normalization_result.errors]

\* ExecutionResult of execute_normalization
execute_normalization(raw_record, grid_intensity, strategy) ==
  execution_outcome(strategy, normalize_record(raw_record, grid_intensity))

(* ------------------------------- critic ------------------------------- *)

max_retries == 3
quality_threshold == 70

Issue(type, severity) == [type |-> type, severity |-> severity]

check_critical_issues(data) ==
  (IF RLe(Get(data, "total_kwh", RInt(0)), RInt(0))
     THEN <<Issue("negative_energy", "critical")>> ELSE <<>>)
  \o (IF RLt(RInt(100), Get(data, "utilization", RInt(0)))
         \/ RLt(Get(data, "utilization", RInt(0)), RInt(0))
        THEN <<Issue("invalid_utilization", "critical")>> ELSE <<>>)
  \o (IF RLe(Get(data, "gpu_hours", RInt(0)), RInt(0))
        THEN <<Issue("missing_critical_data", "critical")>> ELSE <<>>)
  \o (IF RLt(Get(data, "tco2e", RInt(0)), RInt(0))
        THEN <<Issue("calculation_error", "critical")>> ELSE <<>>)

\* data.get("imputation_log", {}) counts the notes that are "imputed"
check_quality_issues(data) ==
  LET imputation_log == Get(data, "imputation_log", EmptyDict)
      imputation_count == Cardinality({k \in DOMAIN imputation_log :
                                         imputation_log[k] = NoteImputed})
  IN (IF RLt(Get(data, "data_quality", RInt(0)), RInt(quality_threshold))
        THEN <<Issue("low_quality", "high")>> ELSE <<>>)
     \o (IF imputation_count > 3
           THEN <<Issue("excessive_imputations", "medium")>> ELSE <<>>)

check_anomalies(data) ==
  (IF RLt(RInt(95), Get(data, "utilization", RInt(0)))
     THEN <<Issue("high_utilization", "low")>> ELSE <<>>)
  \o (IF RLt(RInt(2), Get(data, "pue_used", default_pue))
        THEN <<Issue("high_pue", "medium")>> ELSE <<>>)
  \o (IF RLt(RInt(800), Get(data, "intensity_g_per_kwh", RInt(400)))
        THEN <<Issue("high_intensity", "low")>> ELSE <<>>)

CountSeverity(issues, sev) ==
  Cardinality({i \in 1..Len(issues) : issues[i].severity = sev})

\* a variant of should_retry without the retry ceiling
should_retry_uncapped(issues, quality_score, retry_count) ==
  \/ CountSeverity(issues, "critical") > 0
  \/ RLt(quality_score, RInt(70))
  \/ CountSeverity(issues, "high") > 2

should_retry(issues, quality_score, retry_count) ==
  IF retry_count >= max_retries THEN FALSE
  ELSE IF CountSeverity(issues, "critical") > 0 THEN TRUE
  ELSE IF RLt(quality_score, RInt(quality_threshold)) THEN TRUE
  ELSE IF CountSeverity(issues, "high") > 2 THEN TRUE
  ELSE FALSE

\* CritiqueResult of critique_results
critique_results(execution_result, normalized_data, retry_count) ==
  IF ~execution_result.success
    THEN [passed |-> FALSE,
          issues |-> <<Issue("execution_failure", "critical")>>,
          retry_needed |-> TRUE, retry_reason |-> "Execution failure",
          quality_score |-> RInt(0)]
  ELSE IF normalized_data = EmptyDict
    THEN [passed |-> FALSE,
          issues |-> <<Issue("missing_normalized_data", "critical")>>,
          retry_needed |-> TRUE, retry_reason |-> "Missing normalized data",
          quality_score |-> RInt(0)]
  ELSE LET quality_score == Get(normalized_data, "data_quality", RInt(0))
           issues == check_critical_issues(normalized_data)
                     \o check_quality_issues(normalized_data)
                     \o check_anomalies(normalized_data)
           retry_needed == should_retry(issues, quality_score, retry_count)
       IN [passed |-> ~retry_needed
                      /\ RLe(RInt(quality_threshold), quality_score),
           issues |-> issues,
           retry_needed |-> retry_needed,
           retry_reason |-> IF ~retry_needed THEN "None"
                            ELSE IF CountSeverity(issues, "critical") > 0
                              THEN "Critical issues"
                            ELSE IF RLt(quality_score, RInt(quality_threshold))
                              THEN "Quality score below threshold"
                            ELSE IF CountSeverity(issues, "high") > 0
                              THEN "High severity issues"
                            ELSE "Unknown retry reason",
           quality_score |-> quality_score]

(* ------------------------------- store -------------------------------- *)

\* generate_grid_intensity_data, seeded by init_database and never written again
GridIntensity ==
  [r \in {"US-East", "US-West", "CA-QC", "EU-NL", "EU-NO", "AP-SG", "AP-AU", "UNKNOWN"} |->
     CASE r = "US-East" -> 350 [] r = "US-West" -> 180 [] r = "CA-QC" -> 25
       [] r = "EU-NL" -> 420 [] r = "EU-NO" -> 15 [] r = "AP-SG" -> 480
       [] r = "AP-AU" -> 750 [] r = "UNKNOWN" -> 400]

get_grid_intensity(region) ==
  IF region \in DOMAIN GridIntensity THEN RInt(GridIntensity[region])
  ELSE RInt(GridIntensity["UNKNOWN"])

(* Rows in the formats of the mock generators and of uploaded files.  Token  *)
(* and energy magnitudes are smaller than the generators' so that every      *)
(* product stays inside TLC's integers.                                      *)

\* generate_vendor_b_data: hrs suffix, energy missing (quality 80)
RowVendorB ==
  [company |-> "DataForge-LLC", month |-> "2024-01", region |-> "US-West",
   gpu_hours_raw |-> <<"2","5","0","0"," ","h","r","s">>,
   energy_raw |-> <<>>,
   tokens_raw |-> <<"7","5","0","k">>,
   api_calls_raw |-> <<"8","0","0","0">>,
   pue_raw |-> <<"1",".","2","5">>,
   utilization_raw |-> <<"8","0">>]

\* generate_vendor_c_data: energy and PUE missing, unknown region (quality 70)
RowVendorC ==
  [company |-> "GreenCompute-Inc", month |-> "2024-01", region |-> "UNKNOWN",
   gpu_hours_raw |-> <<"2","5","0","0">>,
   energy_raw |-> <<>>,
   tokens_raw |-> <<"5","0","0","k"," ","t","o","k","e","n","s">>,
   api_calls_raw |-> <<"5","0","0","0"," ","c","a","l","l","s">>,
   pue_raw |-> <<>>,
   utilization_raw |-> <<"5","0","%">>]

\* generate_vendor_d_data: clean (quality 100)
RowVendorD ==
  [company |-> "EuroAI-Systems", month |-> "2024-01", region |-> "EU-NL",
   gpu_hours_raw |-> <<"1","0","0","0">>,
   energy_raw |-> <<"2","5","0","0"," ","k","W","h">>,
   tokens_raw |-> <<"7","5","0","k">>,
   api_calls_raw |-> <<"1",",","2","0","0">>,
   pue_raw |-> <<"1",".","2">>,
   utilization_raw |-> <<"8","0","%">>]

\* an uploaded clean row for a (company, month) the mock data holds
RowClean ==
  [company |-> "DataForge-LLC", month |-> "2024-01", region |-> "US-East",
   gpu_hours_raw |-> <<"1","0","0","0">>,
   energy_raw |-> <<"1"," ","M","W","h">>,
   tokens_raw |-> <<"2","5","0","k">>,
   api_calls_raw |-> <<"3","0","0"," ","r","e","q","u","e","s","t","s">>,
   pue_raw |-> <<"1",".","2">>,
   utilization_raw |-> <<"9","6","%">>]

\* an uploaded row with energy, tokens, calls and PUE missing (quality 50)
RowLowQuality ==
  [company |-> "NewVendor", month |-> "2024-02", region |-> "US-East",
   gpu_hours_raw |-> <<"2","5","0","0">>,
   energy_raw |-> <<>>,
   tokens_raw |-> <<>>,
   api_calls_raw |-> <<>>,
   pue_raw |-> <<>>,
   utilization_raw |-> <<"8","0","%">>]

\* an uploaded row without GPU hours: a critical data error
RowNoGpuHours ==
  [company |-> "NewVendor", month |-> "2024-02", region |-> "AP-AU",
   gpu_hours_raw |-> <<>>,
   energy_raw |-> <<"4","0","0"," ","k","W","h">>,
   tokens_raw |-> <<"7","5","0","k">>,
   api_calls_raw |-> <<"1","2","0","0">>,
   pue_raw |-> <<"1",".","2">>,
   utilization_raw |-> <<"8","0","%">>]

\* an uploaded row whose energy is zero and cannot be imputed (utilization 0)
RowZeroEnergy ==
  [company |-> "EuroAI-Systems", month |-> "2024-01", region |-> "EU-NO",
   gpu_hours_raw |-> <<"1","0","0","0">>,
   energy_raw |-> <<"0"," ","k","W","h">>,
   tokens_raw |-> <<"7","5","0","k">>,
   api_calls_raw |-> <<"1","2","0","0">>,
   pue_raw |-> <<"1",".","2">>,
   utilization_raw |-> <<"0","%">>]

\* an uploaded row whose energy text makes float() raise
RowBadFloat ==
  [company |-> "NewVendor", month |-> "2024-02", region |-> "CA-QC",
   gpu_hours_raw |-> <<"1","0","0","0">>,
   energy_raw |-> <<"1",".","2",".","3"," ","k","W","h">>,
   tokens_raw |-> <<"7","5","0","k">>,
   api_calls_raw |-> <<"1","2","0","0">>,
   pue_raw |-> <<"1",".","2">>,
   utilization_raw |-> <<"8","0","%">>]

\* what generate_all_mock_data may return (it draws at random)
MockBatches == { <<RowVendorB, RowVendorC>>, <<RowVendorD, RowVendorB>> }

\* the rows an uploaded file may hold
UploadRows == {RowClean, RowLowQuality, RowNoGpuHours, RowZeroEnergy, RowBadFloat}

\* how many upload requests, process kills and raised store exceptions a
\* behaviour may hold, all together
MaxDisturbances == 2

VARIABLES
  raw_ingest,              \* table raw_ingest: row i has id i
  normalized_events,       \* table normalized_events, in insertion order
  processing_log,          \* table processing_log, in insertion order
  monthly_company_rollup,  \* table monthly_company_rollup
  rankings,                \* table rankings
  pc,                      \* where the server process is
  raw_records,             \* process_all_data: ids fetched as unprocessed
  idx,                     \* process_all_data: position in raw_records
  retry_count,             \* _process_record: retry_count
  attempts,                \* _process_record: passes of the while loop begun
  saves,                   \* _process_record: NormalizedEvents rows it has added
  detection_result,        \* _process_record: this pass's DetectionResult
  strategy,                \* _process_record: this pass's strategy
  first_attempt,           \* what the first pass of this call computed
  execution_result,        \* _process_record: this pass's ExecutionResult
  critique_result,         \* _process_record: this pass's CritiqueResult
  uploads, aborts, faults  \* requests, kills and raised exceptions so far

vars == <<raw_ingest, normalized_events, processing_log, monthly_company_rollup,
          rankings, pc, raw_records, idx, retry_count, attempts, saves,
          detection_result, strategy, first_attempt, execution_result, critique_result, uploads, aborts, faults>>

store == <<raw_ingest, normalized_events, processing_log, monthly_company_rollup,
           rankings>>
locals == <<raw_records, idx, retry_count, attempts, saves, detection_result, strategy,
            first_attempt, execution_result,
            critique_result>>
counters == <<uploads, aborts, faults>>

\* RawIngest(**row): processed defaults to False
RawIngest(row) == row @@ [processed |-> FALSE]

\* record_dict of _process_record
record_dict(raw_record) ==
  [k \in DOMAIN raw_record \ {"processed"} |-> raw_record[k]]

\* the raw record _process_record is working on
cur == raw_records[idx]

\* nothing computed yet in this _process_record call
NoAttempt ==
  [detected |-> FALSE, detection |-> EmptyDict,
   executed |-> FALSE, execution |-> EmptyDict,
   critiqued |-> FALSE, issues |-> <<>>]

Init ==
  /\ raw_ingest = <<>>
  /\ normalized_events = <<>>
  /\ processing_log = <<>>
  /\ monthly_company_rollup = <<>>
  /\ rankings = <<>>
  /\ pc = "down"
  /\ raw_records = <<>>
  /\ idx = 0
  /\ retry_count = 0
  /\ attempts = 0
  /\ saves = 0
  /\ detection_result = EmptyDict
  /\ strategy = EmptyDict
  /\ first_attempt = NoAttempt
  /\ execution_result = EmptyDict
  /\ critique_result = EmptyDict
  /\ uploads = 0
  /\ aborts = 0
  /\ faults = 0

(* ------------------------- rollups and rankings ----------------------- *)

\* Python's None in a nullable Float column
None == [n |-> 0, d |-> 0]
IsNone(x) == x.d = 0
\* truth value of an optional number: neither None nor 0.0
Truthy(x) == x.d # 0 /\ x.n # 0

RECURSIVE RSum(_)
RSum(xs) == IF xs = <<>> THEN RInt(0) ELSE RAdd(Head(xs), RSum(Tail(xs)))

Column(rows, k) == [i \in 1..Len(rows) |-> rows[i][k]]

\* the order of the YYYY-MM strings in use
MonthOrd(month) == CASE month = "2024-01" -> 1 [] month = "2024-02" -> 2

create_monthly_rollup(company, month, events) ==
  LET total_kwh == RSum(Column(events, "total_kwh"))
      total_tco2e == RSum(Column(events, "tco2e"))
      total_tokens == RSum(Column(events, "tokens"))
      total_api_calls == RSum(Column(events, "api_calls"))
      count == RInt(Len(events))
  IN [company |-> company,
      month |-> month,
      total_kwh |-> total_kwh,
      tco2e |-> total_tco2e,
      g_per_1k_tokens |->
        IF RLt(RInt(0), total_tokens)
          THEN RDiv(RMul(total_tco2e, RInt(1000000)), RDiv(total_tokens, RInt(1000)))
          ELSE None,
      g_per_call |->
        IF RLt(RInt(0), total_api_calls)
          THEN RDiv(RMul(total_tco2e, RInt(1000000)), total_api_calls)
          ELSE None,
      tokens_per_tco2e |->
        IF RLt(RInt(0), total_tco2e) THEN RDiv(total_tokens, total_tco2e) ELSE None,
      utilization_avg |-> RDiv(RSum(Column(events, "utilization")), count),
      pue_used |-> RDiv(RSum(Column(events, "pue_used")), count),
      data_quality |-> RDiv(RSum(Column(events, "data_quality")), count),
      total_tokens |-> total_tokens,
      total_api_calls |-> total_api_calls]

\* the keys of rollup_data in insertion order: first appearance among events
RECURSIVE RollupKeys(_)
RollupKeys(events) ==
  IF events = <<>> THEN <<>>
  ELSE LET before == RollupKeys(SubSeq(events, 1, Len(events) - 1))
           e == events[Len(events)]
           key == <<e.company, e.month>>
       IN IF \E i \in 1..Len(before) : before[i] = key THEN before
          ELSE Append(before, key)

\* a variant of generate_monthly_rollups that groups by company alone
generate_monthly_rollups_by_company(events) ==
  LET keys == RollupKeys(events)
      first == SelectSeq([i \in 1..Len(keys) |-> [at |-> i, key |-> keys[i]]],
                 LAMBDA k : \A j \in 1..(k.at - 1) : keys[j][1] # k.key[1])
  IN [i \in 1..Len(first) |->
        create_monthly_rollup(first[i].key[1], first[i].key[2],
          SelectSeq(events, LAMBDA e : e.company = first[i].key[1]))]

\* the table _generate_monthly_rollups commits
generate_monthly_rollups(events) ==
  LET keys == RollupKeys(events)
  IN [i \in 1..Len(keys) |->
        create_monthly_rollup(keys[i][1], keys[i][2],
          SelectSeq(events, LAMBDA e : <<e.company, e.month>> = keys[i]))]

RECURSIVE RMaxSeq(_)
RMaxSeq(xs) ==
  IF Len(xs) = 1 THEN xs[1] ELSE RMax(xs[1], RMaxSeq(Tail(xs)))

\* _calculate_green_score: the maxima are taken over every stored rollup
calculate_green_score(rollup, all_rollups) ==
  LET tco2e_values == Column(all_rollups, "tco2e")
      intensity_values == SelectSeq(Column(all_rollups, "g_per_1k_tokens"),
                                    LAMBDA x : ~IsNone(x))
      max_tco2e == IF tco2e_values # <<>> THEN RMaxSeq(tco2e_values) ELSE RInt(1)
      max_intensity == IF intensity_values # <<>> THEN RMaxSeq(intensity_values)
                       ELSE RInt(1)
      tco2e_score == IF RLt(RInt(0), max_tco2e)
                       THEN RSub(RInt(1), RDiv(rollup.tco2e, max_tco2e))
                       ELSE RInt(0)
      intensity_score ==
        IF Truthy(rollup.g_per_1k_tokens) /\ RLt(RInt(0), max_intensity)
          THEN RSub(RInt(1), RDiv(rollup.g_per_1k_tokens, max_intensity))
          ELSE RInt(0)
      utilization_score == RDiv(rollup.utilization_avg, RInt(100))
      green_score == RMul(RAdd(RAdd(RMul(Rat(4, 10), tco2e_score),
                                    RMul(Rat(4, 10), intensity_score)),
                               RMul(Rat(2, 10), utilization_score)),
                          RInt(100))
  IN RMin(RInt(100), RMax(RInt(0), green_score))

\* a variant of SortByScore that puts a later entry before its equals
RECURSIVE SortByScoreUnstable(_)
SortByScoreUnstable(xs) ==
  IF xs = <<>> THEN <<>>
  ELSE LET sorted == SortByScoreUnstable(SubSeq(xs, 1, Len(xs) - 1))
           x == xs[Len(xs)]
           keep == Cardinality({i \in 1..Len(sorted) :
                                  RLt(x.green_score, sorted[i].green_score)})
       IN SubSeq(sorted, 1, keep) \o <<x>> \o SubSeq(sorted, keep + 1, Len(sorted))

\* list.sort(key=green_score, reverse=True): stable, larger scores first
RECURSIVE SortByScore(_)
SortByScore(xs) ==
  IF xs = <<>> THEN <<>>
  ELSE LET sorted == SortByScore(SubSeq(xs, 1, Len(xs) - 1))
           x == xs[Len(xs)]
           keep == Cardinality({i \in 1..Len(sorted) :
                                  RLe(x.green_score, sorted[i].green_score)})
       IN SubSeq(sorted, 1, keep) \o <<x>> \o SubSeq(sorted, keep + 1, Len(sorted))

CountIf(xs, P(_)) == Cardinality({i \in 1..Len(xs) : P(xs[i])})

\* the table _generate_rankings commits, given the stored rollups
generate_rankings(all_rollups) ==
  LET latest == CHOOSE m \in {all_rollups[i].month : i \in 1..Len(all_rollups)} :
                  \A j \in 1..Len(all_rollups) :
                     MonthOrd(all_rollups[j].month) <= MonthOrd(m)
      rollups == SelectSeq(all_rollups, LAMBDA r : r.month = latest)
      rankings_data == SortByScore(
        [i \in 1..Len(rollups) |->
           [rollup |-> rollups[i],
            green_score |-> calculate_green_score(rollups[i], all_rollups)]])
      row(i) ==
        LET rollup == rankings_data[i].rollup
        IN [company |-> rollup.company,
            month |-> rollup.month,
            green_score |-> rankings_data[i].green_score,
            overall_rank |-> i,
            tco2e_rank |-> 1 + CountIf(rankings_data,
               LAMBDA r : RLt(r.rollup.tco2e, rollup.tco2e)),
            intensity_rank |-> 1 + CountIf(rankings_data,
               LAMBDA r : /\ Truthy(r.rollup.g_per_1k_tokens)
                          /\ Truthy(rollup.g_per_1k_tokens)
                          /\ RLt(r.rollup.g_per_1k_tokens, rollup.g_per_1k_tokens)),
            efficiency_rank |-> 1 + CountIf(rankings_data,
               LAMBDA r : /\ Truthy(r.rollup.tokens_per_tco2e)
                          /\ Truthy(rollup.tokens_per_tco2e)
                          /\ RLt(rollup.tokens_per_tco2e, r.rollup.tokens_per_tco2e)),
            utilization_rank |-> 1 + CountIf(rankings_data,
               LAMBDA r : RLt(rollup.utilization_avg, r.rollup.utilization_avg)),
            total_kwh |-> rollup.total_kwh,
            tco2e |-> rollup.tco2e,
            g_per_1k_tokens |-> rollup.g_per_1k_tokens,
            tokens_per_tco2e |-> rollup.tokens_per_tco2e,
            utilization_avg |-> rollup.utilization_avg,
            data_quality |-> rollup.data_quality]
  IN [i \in 1..Len(rankings_data) |-> row(i)]

(* ------------------------------ actions ------------------------------- *)

\* _log_processing: one processing_log row, committed
log_processing(raw_record, stage, action, rc) ==
  Append(processing_log,
         [company |-> raw_record.company, month |-> raw_record.month,
          stage |-> stage, action |-> action, retry_count |-> rc])

\* RawIngest.processed == False, in id order
Unprocessed(table) ==
  SelectSeq([i \in 1..Len(table) |-> i], LAMBDA i : ~table[i].processed)

ResetLocals ==
  /\ retry_count' = 0
  /\ attempts' = 0
  /\ saves' = 0
  /\ detection_result' = EmptyDict
  /\ strategy' = EmptyDict
  /\ first_attempt' = NoAttempt
  /\ execution_result' = EmptyDict
  /\ critique_result' = EmptyDict

\* startup_event: the server process starts and calls process_all_data
Startup ==
  /\ pc = "down"
  /\ pc' = "start"
  /\ UNCHANGED <<store, locals, counters>>

\* process_all_data up to the for loop: _load_mock_data fills an empty
\* raw_ingest, then the unprocessed rows are fetched
LoadAndFetch ==
  /\ pc = "start"
  /\ \E batch \in MockBatches :
       raw_ingest' = IF raw_ingest = <<>>
                       THEN [i \in 1..Len(batch) |-> RawIngest(batch[i])]
                       ELSE raw_ingest
  /\ raw_records' = Unprocessed(raw_ingest')
  /\ idx' = 1
  /\ pc' = IF raw_records' # <<>> THEN "attempt" ELSE "rollups"
  /\ ResetLocals
  /\ UNCHANGED <<normalized_events, processing_log, monthly_company_rollup,
                 rankings, counters>>

\* one pass of the while loop up to the planner's log row
Plan ==
  /\ pc = "attempt"
  /\ retry_count <= max_retries
  /\ attempts' = attempts + 1
  /\ processing_log' = log_processing(raw_ingest[cur], "planner", "detection",
                                      retry_count)
  /\ detection_result' = detect_issues(record_dict(raw_ingest[cur]))
  /\ strategy' = plan_normalization_strategy(detection_result')
  /\ first_attempt' = IF first_attempt.detected THEN first_attempt
                       ELSE [first_attempt EXCEPT !.detected = TRUE,
                                                  !.detection = detection_result']
  /\ execution_result' = EmptyDict
  /\ critique_result' = EmptyDict
  /\ pc' = "executor"
  /\ UNCHANGED <<raw_ingest, normalized_events, monthly_company_rollup, rankings,
                 raw_records, idx, retry_count, saves, counters>>

\* a pass in which the store raises inside the try block: the except branch
\* logs it and counts a retry
AttemptRaises ==
  /\ pc = "attempt"
  /\ retry_count <= max_retries
  /\ uploads + aborts + faults < MaxDisturbances
  /\ faults' = faults + 1
  /\ attempts' = attempts + 1
  /\ processing_log' = log_processing(raw_ingest[cur], "error", "exception",
                                      retry_count)
  /\ retry_count' = retry_count + 1
  /\ execution_result' = EmptyDict
  /\ critique_result' = EmptyDict
  /\ UNCHANGED <<raw_ingest, normalized_events, monthly_company_rollup, rankings,
                 pc, raw_records, idx, saves, detection_result, strategy, first_attempt,
                 uploads, aborts>>

\* a variant of Execute whose failure branch forgets retry_count += 1
ExecuteNoCount ==
  /\ pc = "executor"
  /\ execution_result' =
       execute_normalization(record_dict(raw_ingest[cur]),
         get_grid_intensity(raw_ingest[cur].region), strategy)
  /\ first_attempt' = IF first_attempt.executed THEN first_attempt
                       ELSE [first_attempt EXCEPT !.executed = TRUE,
                                                  !.execution = execution_result']
  /\ IF ~execution_result'.success
       THEN /\ processing_log' = log_processing(raw_ingest[cur], "executor",
                                    "normalization_failed", retry_count)
            /\ pc' = "attempt"
       ELSE /\ pc' = "critic"
            /\ UNCHANGED processing_log
  /\ UNCHANGED <<raw_ingest, normalized_events, monthly_company_rollup, rankings,
                 raw_records, idx, retry_count, attempts, saves, detection_result, strategy,
                 critique_result, counters>>

\* a variant of Execute that reads the market-average intensity on a retry
ExecuteDrifting ==
  /\ pc = "executor"
  /\ execution_result' =
       execute_normalization(record_dict(raw_ingest[cur]),
         IF retry_count = 0 THEN get_grid_intensity(raw_ingest[cur].region)
         ELSE get_grid_intensity(RegionUnknown), strategy)
  /\ first_attempt' = IF first_attempt.executed THEN first_attempt
                       ELSE [first_attempt EXCEPT !.executed = TRUE,
                                                  !.execution = execution_result']
  /\ IF ~execution_result'.success
       THEN /\ processing_log' = log_processing(raw_ingest[cur], "executor",
                                    "normalization_failed", retry_count)
            /\ retry_count' = retry_count + 1
            /\ pc' = "attempt"
       ELSE /\ pc' = "critic"
            /\ UNCHANGED <<processing_log, retry_count>>
  /\ UNCHANGED <<raw_ingest, normalized_events, monthly_company_rollup, rankings,
                 raw_records, idx, attempts, saves, detection_result, strategy,
                 critique_result, counters>>

\* the executor call and the branch on execution_result.success
Execute ==
  /\ pc = "executor"
  /\ execution_result' =
       execute_normalization(record_dict(raw_ingest[cur]),
         get_grid_intensity(raw_ingest[cur].region), strategy)
  /\ first_attempt' = IF first_attempt.executed THEN first_attempt
                       ELSE [first_attempt EXCEPT !.executed = TRUE,
                                                  !.execution = execution_result']
  /\ IF ~execution_result'.success
       THEN /\ processing_log' = log_processing(raw_ingest[cur], "executor",
                                    "normalization_failed", retry_count)
            /\ retry_count' = retry_count + 1
            /\ pc' = "attempt"
       ELSE /\ pc' = "critic"
            /\ UNCHANGED <<processing_log, retry_count>>
  /\ UNCHANGED <<raw_ingest, normalized_events, monthly_company_rollup, rankings,
                 raw_records, idx, attempts, saves, detection_result, strategy,
                 critique_result, counters>>

\* the critic call, its log row and the branch on retry_needed
Critique ==
  /\ pc = "critic"
  /\ critique_result' = critique_results(execution_result,
                         execution_result.normalized_data, retry_count)
  /\ processing_log' = log_processing(raw_ingest[cur], "critic", "validation",
                                      retry_count)
  /\ first_attempt' = IF first_attempt.critiqued THEN first_attempt
                       ELSE [first_attempt EXCEPT !.critiqued = TRUE,
                                                  !.issues = critique_result'.issues]
  /\ IF critique_result'.retry_needed /\ retry_count < max_retries
       THEN retry_count' = retry_count + 1 /\ pc' = "attempt"
       ELSE /\ retry_count' = retry_count
            /\ pc' = IF execution_result.normalized_data # EmptyDict
                       THEN "save" ELSE "attempt"
  /\ UNCHANGED <<raw_ingest, normalized_events, monthly_company_rollup, rankings,
                 raw_records, idx, attempts, saves, detection_result, strategy,
                 execution_result, counters>>

\* the NormalizedEvents row _save_normalized_data builds
NormalizedEvent(raw_id, normalized_data) ==
  normalized_data @@
  [imputation_log |-> Get(normalized_data, "imputation_log", EmptyDict),
   raw_ingest_id |-> raw_id]

\* _save_normalized_data: add and commit
SaveNormalized ==
  /\ pc = "save"
  /\ normalized_events' = Append(normalized_events,
        NormalizedEvent(cur, execution_result.normalized_data))
  /\ saves' = saves + 1
  /\ pc' = "mark"
  /\ UNCHANGED <<raw_ingest, processing_log, monthly_company_rollup, rankings,
                 raw_records, idx, retry_count, attempts, detection_result, strategy,
                 first_attempt, execution_result, critique_result, counters>>

\* a variant of MarkProcessed that also blanks the row's energy text
MarkProcessedRewrites ==
  /\ pc = "mark"
  /\ raw_ingest' = [raw_ingest EXCEPT ![cur].processed = TRUE,
                                      ![cur].energy_raw = <<"0">>]
  /\ pc' = "return"
  /\ UNCHANGED <<normalized_events, processing_log, monthly_company_rollup,
                 rankings, locals, counters>>

\* raw_record.processed = True; commit; break
MarkProcessed ==
  /\ pc = "mark"
  /\ raw_ingest' = [raw_ingest EXCEPT ![cur].processed = TRUE]
  /\ pc' = "return"
  /\ UNCHANGED <<normalized_events, processing_log, monthly_company_rollup,
                 rankings, locals, counters>>

\* the while condition fails: retry_count > max_retries marks the row processed
GiveUp ==
  /\ pc = "attempt"
  /\ retry_count > max_retries
  /\ raw_ingest' = [raw_ingest EXCEPT ![cur].processed = TRUE]
  /\ pc' = "return"
  /\ UNCHANGED <<normalized_events, processing_log, monthly_company_rollup,
                 rankings, locals, counters>>

\* a variant of NextRecord that leaves the for loop after the first record
NextRecordStops ==
  /\ pc = "return"
  /\ idx' = idx + 1
  /\ pc' = "rollups"
  /\ ResetLocals
  /\ UNCHANGED <<store, raw_records, counters>>

\* _process_record has returned: the for loop of process_all_data moves on
NextRecord ==
  /\ pc = "return"
  /\ idx' = idx + 1
  /\ pc' = IF idx < Len(raw_records) THEN "attempt" ELSE "rollups"
  /\ ResetLocals
  /\ UNCHANGED <<store, raw_records, counters>>

\* _generate_monthly_rollups: delete, rebuild, commit
GenerateRollups ==
  /\ pc = "rollups"
  /\ monthly_company_rollup' = generate_monthly_rollups(normalized_events)
  /\ pc' = "rankings"
  /\ UNCHANGED <<raw_ingest, normalized_events, processing_log, rankings, locals,
                 counters>>

\* a variant of GenerateRankings that keeps the rows of earlier runs
GenerateRankingsAppend ==
  /\ pc = "rankings"
  /\ rankings' = IF monthly_company_rollup = <<>> THEN rankings
                 ELSE rankings \o generate_rankings(monthly_company_rollup)
  /\ pc' = "idle"
  /\ raw_records' = <<>>
  /\ idx' = 0
  /\ ResetLocals
  /\ UNCHANGED <<raw_ingest, normalized_events, processing_log,
                 monthly_company_rollup, counters>>

\* _generate_rankings: without rollups it returns before any commit
GenerateRankings ==
  /\ pc = "rankings"
  /\ rankings' = IF monthly_company_rollup = <<>> THEN rankings
                 ELSE generate_rankings(monthly_company_rollup)
  /\ pc' = "idle"
  /\ raw_records' = <<>>
  /\ idx' = 0
  /\ ResetLocals
  /\ UNCHANGED <<raw_ingest, normalized_events, processing_log,
                 monthly_company_rollup, counters>>

\* id of the first raw_ingest row of that company and month, 0 when none
Existing(company, month) ==
  LET hits == {i \in 1..Len(raw_ingest) :
                 raw_ingest[i].company = company /\ raw_ingest[i].month = month}
  IN IF hits = {} THEN 0 ELSE CHOOSE i \in hits : \A j \in hits : i <= j

\* a variant of UploadFile that does not wait for a running pipeline
UploadFileAnytime(row, overwrite_existing, auto_process) ==
  /\ pc # "down"
  /\ uploads + aborts + faults < MaxDisturbances
  /\ uploads' = uploads + 1
  /\ raw_ingest' =
       IF Existing(row.company, row.month) # 0 /\ ~overwrite_existing
         THEN raw_ingest
       ELSE IF Existing(row.company, row.month) # 0
         THEN [raw_ingest EXCEPT ![Existing(row.company, row.month)] = RawIngest(row)]
       ELSE Append(raw_ingest, RawIngest(row))
  /\ UNCHANGED <<normalized_events, processing_log, monthly_company_rollup,
                 rankings, pc, locals, aborts, faults>>

\* upload_file with a one-row file
UploadFile(row, overwrite_existing, auto_process) ==
  /\ pc = "idle"
  /\ uploads + aborts + faults < MaxDisturbances
  /\ uploads' = uploads + 1
  /\ LET existing == Existing(row.company, row.month)
         skipped == existing # 0 /\ ~overwrite_existing
     IN /\ raw_ingest' =
             IF skipped THEN raw_ingest
             ELSE IF existing # 0
               THEN [raw_ingest EXCEPT ![existing] = RawIngest(row)]
             ELSE Append(raw_ingest, RawIngest(row))
        /\ pc' = IF auto_process /\ ~skipped THEN "start" ELSE "idle"
  /\ UNCHANGED <<normalized_events, processing_log, monthly_company_rollup,
                 rankings, locals, aborts, faults>>

\* the server process is killed; what was committed stays
Abort ==
  /\ pc # "down"
  /\ uploads + aborts + faults < MaxDisturbances
  /\ aborts' = aborts + 1
  /\ pc' = "down"
  /\ raw_records' = <<>>
  /\ idx' = 0
  /\ ResetLocals
  /\ UNCHANGED <<store, uploads, faults>>

Next ==
  \/ Startup
  \/ LoadAndFetch
  \/ Plan
  \/ AttemptRaises
  \/ Execute
  \/ Critique
  \/ SaveNormalized
  \/ MarkProcessed
  \/ GiveUp
  \/ NextRecord
  \/ GenerateRollups
  \/ GenerateRankings
  \/ \E row \in UploadRows, overwrite_existing \in BOOLEAN, auto_process \in BOOLEAN :
       UploadFile(row, overwrite_existing, auto_process)
  \/ Abort

Spec == Init /\ [][Next]_vars

(* ------------------- critique_results on its own ---------------------- *)

\* largest retry_count handed to the critic
MaxRetryCount == 4

\* normalized data the critic may be handed, impossible values included
CriticData ==
  [total_kwh : {RInt(-1), RInt(0), RInt(500)},
   utilization : {RInt(-5), RInt(50), RInt(97), RInt(120)},
   gpu_hours : {RInt(0), RInt(100)},
   tco2e : {RInt(-1), Rat(1, 2)},
   data_quality : {RInt(50), RInt(69), RInt(70), RInt(100)},
   pue_used : {Rat(12, 10), Rat(5, 2)},
   intensity_g_per_kwh : {RInt(400), RInt(900)}]

\* the ExecutionResult values the critic may be handed
CriticInputs ==
  {[success |-> s, normalized_data |-> d, execution_log |-> <<>>, errors |-> <<>>] :
     s \in BOOLEAN, d \in CriticData \cup {EmptyDict}}

InitCritic ==
  /\ raw_ingest = <<>>
  /\ normalized_events = <<>>
  /\ processing_log = <<>>
  /\ monthly_company_rollup = <<>>
  /\ rankings = <<>>
  /\ pc = "critic"
  /\ raw_records = <<>>
  /\ idx = 0
  /\ retry_count \in 0..MaxRetryCount
  /\ attempts = 0
  /\ saves = 0
  /\ detection_result = EmptyDict
  /\ strategy = EmptyDict
  /\ first_attempt = NoAttempt
  /\ execution_result \in CriticInputs
  /\ critique_result = EmptyDict
  /\ uploads = 0
  /\ aborts = 0
  /\ faults = 0

\* one call of critique_results, as _process_record makes it
CritiqueCall ==
  /\ pc = "critic"
  /\ critique_result' = critique_results(execution_result,
                         execution_result.normalized_data, retry_count)
  /\ pc' = "critiqued"
  /\ UNCHANGED <<store, raw_records, idx, retry_count, attempts, saves,
                 detection_result, strategy, first_attempt, execution_result,
                 counters>>

NextCritic == CritiqueCall

SpecCritic == InitCritic /\ [][NextCritic]_vars

(* ------------------- normalize_record on its own ---------------------- *)

\* free-text field values handed to the normalizer, each with what it
\* stands for: kind "blank", "number" (value v) or "garbage"
Sample(text, kind, v) == [text |-> text, kind |-> kind, v |-> v]

GpuSamples ==
  {Sample(<<>>, "blank", RInt(0)),
   Sample(<<"1","0","0","0">>, "number", RInt(1000)),
   Sample(<<"2","5","0","0"," ","h","r","s">>, "number", RInt(2500))}

EnergySamples ==
  {Sample(<<>>, "blank", RInt(0)),
   Sample(<<"2","5","0","0"," ","k","W","h">>, "number", RInt(2500)),
   Sample(<<"1"," ","M","W","h">>, "number", RInt(1000)),
   Sample(<<"0"," ","k","W","h">>, "number", RInt(0)),
   Sample(<<"n","/","a">>, "garbage", RInt(0)),
   Sample(<<"1",".","2",".","3"," ","k","W","h">>, "garbage", RInt(0))}

TokenSamples ==
  {Sample(<<>>, "blank", RInt(0)),
   Sample(<<"n","/","a">>, "garbage", RInt(0)),
   Sample(<<"2","5","0","k">>, "number", RInt(250000))}

ApiSamples ==
  {Sample(<<>>, "blank", RInt(0)),
   Sample(<<"3","0","0"," ","r","e","q","u","e","s","t","s">>, "number", RInt(300))}

PueSamples ==
  {Sample(<<>>, "blank", RInt(0)),
   Sample(<<"0",".","5">>, "number", Rat(1, 2)),
   Sample(<<"1",".","0">>, "number", RInt(1)),
   Sample(<<"1",".","2">>, "number", Rat(12, 10)),
   Sample(<<"3",".","0">>, "number", RInt(3)),
   Sample(<<"3",".","5">>, "number", Rat(7, 2)),
   Sample(<<"n","/","a">>, "garbage", RInt(0))}

UtilizationSamples ==
  {Sample(<<>>, "blank", RInt(0)),
   Sample(<<" ", " ">>, "blank", RInt(0)),
   Sample(<<"8","0","%">>, "number", RInt(80)),
   Sample(<<"1","0","0">>, "number", RInt(100)),
   Sample(<<"1","0","0",".","5","%">>, "number", Rat(201, 2)),
   Sample(<<"1","2","0","%">>, "number", RInt(120)),
   Sample(<<"n","/","a">>, "garbage", RInt(0))}

\* a seeded region and one the grid-intensity table does not hold
RegionSamples == {"US-East", "XX-00"}

\* the sample a field text was drawn from
SampleOf(samples, text) == CHOOSE s \in samples : s.text = text

\* one raw record awaiting normalization
InitNormalizer ==
  /\ \E g \in GpuSamples, e \in EnergySamples, t \in TokenSamples,
        a \in ApiSamples, p \in PueSamples, u \in UtilizationSamples,
        r \in RegionSamples :
       raw_ingest = << RawIngest([company |-> "NewVendor", month |-> "2024-02",
                                  region |-> r,
                                  gpu_hours_raw |-> g.text,
                                  energy_raw |-> e.text,
                                  tokens_raw |-> t.text,
                                  api_calls_raw |-> a.text,
                                  pue_raw |-> p.text,
                                  utilization_raw |-> u.text]) >>
  /\ normalized_events = <<>>
  /\ processing_log = <<>>
  /\ monthly_company_rollup = <<>>
  /\ rankings = <<>>
  /\ pc = "normalize"
  /\ raw_records = <<1>>
  /\ idx = 1
  /\ retry_count = 0
  /\ attempts = 0
  /\ saves = 0
  /\ detection_result = EmptyDict
  /\ strategy = EmptyDict
  /\ first_attempt = NoAttempt
  /\ execution_result = EmptyDict
  /\ critique_result = EmptyDict
  /\ uploads = 0
  /\ aborts = 0
  /\ faults = 0

\* one call of normalize_record, as execute_normalization makes it;
\* execution_result holds the NormalizationResult it returns
NormalizeCall ==
  /\ pc = "normalize"
  /\ execution_result' = normalize_record(record_dict(raw_ingest[cur]),
                           get_grid_intensity(raw_ingest[cur].region))
  /\ pc' = "normalized"
  /\ UNCHANGED <<store, raw_records, idx, retry_count, attempts, saves,
                 detection_result, strategy, first_attempt, critique_result, counters>>

NextNormalizer == NormalizeCall

SpecNormalizer == InitNormalizer /\ [][NextNormalizer]_vars

(* --------------- rollup and ranking generation on their own ------------ *)

\* most NormalizedEvents rows in the table
MaxEvents == 3

\* a raw row of a vendor reporting 1000 GPU hours at PUE 1.25 in a region
\* without grid data (400 g/kWh), energy, tokens and utilization as given;
\* a vendor that reports tokens reports 300 API calls too
RankerRow(company, month, energy_raw, tokens_raw, utilization_raw) ==
  [company |-> company, month |-> month, region |-> "UNKNOWN",
   gpu_hours_raw |-> <<"1","0","0","0">>,
   energy_raw |-> energy_raw,
   tokens_raw |-> tokens_raw,
   api_calls_raw |-> IF tokens_raw = <<>> THEN <<>> ELSE <<"3","0","0">>,
   pue_raw |-> <<"1",".","2","5">>,
   utilization_raw |-> utilization_raw]

\* an energy text reading 1e-321 kWh: "0." followed by 320 zeros and a 1
TinyEnergy ==
  <<"0", ".">> \o [i \in 1..320 |-> "0"] \o <<"1", " ", "k", "W", "h">>

\* rows whose emissions come to 0.5, 1.0 and 2.0 tCO2e, with and without
\* token counts, in two months
RankerRows ==
  {RankerRow("DataForge-LLC", "2024-02", <<"1","0","0","0"," ","k","W","h">>,
             <<>>, <<"8","0","%">>),
   RankerRow("EuroAI-Systems", "2024-02", <<"2","0","0","0"," ","k","W","h">>,
             <<>>, <<"6","0","%">>),
   RankerRow("EuroAI-Systems", "2024-02", <<"1","0","0","0"," ","k","W","h">>,
             <<>>, <<"8","0","%">>),
   RankerRow("GreenCompute-Inc", "2024-02", <<"1","0","0","0"," ","k","W","h">>,
             <<"2","5","0","k">>, <<"8","0","%">>),
   RankerRow("GreenCompute-Inc", "2024-02", <<"2","0","0","0"," ","k","W","h">>,
             <<"5","0","0","k">>, <<"6","0","%">>),
   RankerRow("GreenCompute-Inc", "2024-02", TinyEnergy,
             <<"2","5","0","k">>, <<"6","0","%">>),
   RankerRow("DataForge-LLC", "2024-01", <<"4","0","0","0"," ","k","W","h">>,
             <<"2","5","0","k">>, <<"6","0","%">>)}

\* the normalized data of a row.  For the 1e-321 kWh row the energies are
\* positive, so the record passes, while total_kwh * 400 / 1_000_000 is below
\* the smallest float and comes out as 0.0; 1/1000 stands for the energy
RankerData(row) ==
  IF row.energy_raw = TinyEnergy
    THEN [normalize_record([row EXCEPT !.energy_raw = <<"1">>],
                           get_grid_intensity(row.region)).data
            EXCEPT !.it_kwh = Rat(1, 1000),
                   !.total_kwh = RMul(Rat(1, 1000), Rat(125, 100)),
                   !.tco2e = RInt(0)]
    ELSE normalize_record(row, get_grid_intensity(row.region)).data

\* every raw row processed and saved, no rollup or ranking run made yet
InitRanker ==
  /\ \E n \in 1..MaxEvents : \E rows \in [1..n -> RankerRows] :
       /\ raw_ingest = [i \in 1..n |-> [RawIngest(rows[i]) EXCEPT !.processed = TRUE]]
       /\ normalized_events = [i \in 1..n |-> NormalizedEvent(i, RankerData(rows[i]))]
  /\ processing_log = <<>>
  /\ monthly_company_rollup = <<>>
  /\ rankings = <<>>
  /\ pc = "rollups"
  /\ raw_records = <<>>
  /\ idx = 0
  /\ retry_count = 0
  /\ attempts = 0
  /\ saves = 0
  /\ detection_result = EmptyDict
  /\ strategy = EmptyDict
  /\ first_attempt = NoAttempt
  /\ execution_result = EmptyDict
  /\ critique_result = EmptyDict
  /\ uploads = 0
  /\ aborts = 0
  /\ faults = 0

NextRanker == GenerateRollups \/ GenerateRankings

SpecRanker == InitRanker /\ [][NextRanker]_vars

(* ------------- detect_issues and the executor on their own ------------- *)

\* energy texts: blank, one unit, both units
PlannerEnergyTexts ==
  {<<>>, <<"2","5","0","0"," ","k","W","h">>, <<"1"," ","M","W","h">>,
   <<"1"," ","M","W","h"," ","/"," ","1","0","0","0"," ","k","W","h">>}

PlannerPueTexts == {<<>>, <<"1",".","2">>}

\* token texts: blank, with a k suffix, plain digits
PlannerTokenTexts == {<<>>, <<"2","5","0","k">>, <<"2","5","0","0","0","0">>}

PlannerRegions == {"UNKNOWN", "US-East"}

PlannerUtilizationTexts ==
  {<<>>, <<" ">>, <<"8","5">>, <<"8","5","%">>, <<"8","5",".","5">>,
   <<"1","5","0","%">>, <<"-","5","%">>, <<"n","/","a">>}

\* the raw records handed to the planner
PlannerRecords ==
  {[company |-> "NewVendor", month |-> "2024-02", region |-> r,
    gpu_hours_raw |-> <<"1","0","0","0">>,
    energy_raw |-> e, tokens_raw |-> t,
    api_calls_raw |-> <<"3","0","0">>,
    pue_raw |-> p, utilization_raw |-> u] :
     r \in PlannerRegions, e \in PlannerEnergyTexts, t \in PlannerTokenTexts,
     p \in PlannerPueTexts, u \in PlannerUtilizationTexts}

\* every strategy plan_normalization_strategy returns for those records
PlannerStrategies ==
  {plan_normalization_strategy(detect_issues(r)) : r \in PlannerRecords}

InitPlanner ==
  /\ \E r \in PlannerRecords : raw_ingest = << RawIngest(r) >>
  /\ normalized_events = <<>>
  /\ processing_log = <<>>
  /\ monthly_company_rollup = <<>>
  /\ rankings = <<>>
  /\ pc = "detect"
  /\ raw_records = <<1>>
  /\ idx = 1
  /\ retry_count = 0
  /\ attempts = 0
  /\ saves = 0
  /\ detection_result = EmptyDict
  /\ strategy = EmptyDict
  /\ first_attempt = NoAttempt
  /\ execution_result = EmptyDict
  /\ critique_result = EmptyDict
  /\ uploads = 0
  /\ aborts = 0
  /\ faults = 0

\* one call of detect_issues, as _process_record makes it
DetectCall ==
  /\ pc = "detect"
  /\ detection_result' = detect_issues(record_dict(raw_ingest[cur]))
  /\ pc' = "detected"
  /\ UNCHANGED <<store, raw_records, idx, retry_count, attempts, saves, strategy,
                 first_attempt, execution_result, critique_result, counters>>

\* one call of execute_normalization on the record with a planner strategy
ExecuteCall(planned) ==
  /\ pc = "detected"
  /\ strategy' = planned
  /\ execution_result' =
       execute_normalization(record_dict(raw_ingest[cur]),
                             get_grid_intensity(raw_ingest[cur].region), strategy')
  /\ pc' = "executed"
  /\ UNCHANGED <<store, raw_records, idx, retry_count, attempts, saves,
                 detection_result, first_attempt, critique_result, counters>>

NextPlanner ==
  \/ DetectCall
  \/ \E planned \in PlannerStrategies : ExecuteCall(planned)

SpecPlanner == InitPlanner /\ [][NextPlanner]_vars

(* ------------------------------ properties ---------------------------- *)

\* the NormalizedEvents rows linked to raw_ingest row i
EventsOf(i) == SelectSeq(normalized_events, LAMBDA e : e.raw_ingest_id = i)

\* what normalize_record returns for raw_ingest row i as it is stored now
NormalizedOf(i) ==
  normalize_record(record_dict(raw_ingest[i]), get_grid_intensity(raw_ingest[i].region))

\* the normalized values hold one of the critic's critical issues
HasCriticalIssue(normalization_result) ==
  /\ normalization_result.data # EmptyDict
  /\ check_critical_issues(normalization_result.data) # <<>>

CriticalRecord(i) == HasCriticalIssue(NormalizedOf(i))

\* normalizing the row raises inside normalize_record
Raises(i) ==
  \/ normalize_energy(raw_ingest[i].energy_raw).raised
  \/ normalize_tokens(raw_ingest[i].tokens_raw).raised

\* the values normalize_record itself rejects
RejectedValues(normalization_result) ==
  /\ normalization_result.data # EmptyDict
  /\ \/ RLe(normalization_result.data.gpu_hours, RInt(0))
     \/ RLe(normalization_result.data.total_kwh, RInt(0))
     \/ RLt(RInt(100), normalization_result.data.utilization)

\* execution_result holds normalized data
ProducedData ==
  execution_result # EmptyDict /\ execution_result.normalized_data # EmptyDict

\* C1: _process_record makes at most 4 passes of the loop, each with
\* retry_count in 0..3, and when it returns the record has processed = true
C1_BoundedPasses ==
  /\ attempts <= 4
  /\ retry_count <= 4
  /\ pc \in {"executor", "critic", "save", "mark"} => retry_count <= 3
  /\ pc = "return" => raw_ingest[cur].processed

\* C1 witness: a call that returned after four passes, one of which raised
C1_Witness ==
  pc = "return" /\ attempts = 4 /\ faults = 1 /\ raw_ingest[cur].processed

C3_Original ==
  pc = "return" => ((EventsOf(cur) # <<>>) <=> ProducedData)

C6_DecisionRules ==
  pc = "critiqued" =>
    IF ~execution_result.success \/ execution_result.normalized_data = EmptyDict
      THEN critique_result.retry_needed /\ ~critique_result.passed
      ELSE /\ critique_result.retry_needed <=>
                /\ retry_count < 3
                /\ \/ CountSeverity(critique_result.issues, "critical") > 0
                   \/ RLt(execution_result.normalized_data.data_quality, RInt(70))
                   \/ CountSeverity(critique_result.issues, "high") > 2
           /\ critique_result.passed <=>
                /\ ~critique_result.retry_needed
                /\ RLe(RInt(70), execution_result.normalized_data.data_quality)
           /\ ~(critique_result.passed /\ critique_result.retry_needed)

\* C6 witness: a critical issue met at retry_count = 3 is neither retried nor
\* passed
C6_Witness ==
  /\ pc = "critiqued"
  /\ execution_result.success
  /\ execution_result.normalized_data # EmptyDict
  /\ retry_count = 3
  /\ CountSeverity(critique_result.issues, "critical") > 0
  /\ ~critique_result.retry_needed
  /\ ~critique_result.passed

\* the raw fields of row i stay and processed does not return to false
RowKept(i) ==
  /\ i <= Len(raw_ingest')
  /\ record_dict(raw_ingest'[i]) = record_dict(raw_ingest[i])
  /\ raw_ingest[i].processed => raw_ingest'[i].processed

\* C7 (as amended): every step other than an upload leaves the raw fields of
\* every stored row as they are and never turns processed from true to false
C7_PipelineKeepsRaw ==
  [][uploads' = uploads => \A i \in 1..Len(raw_ingest) : RowKept(i)]_vars

\* C7 witness: a stored row that an upload rewrote has been processed again
C7_Witness ==
  /\ uploads = 1
  /\ pc = "idle"
  /\ \E i \in 1..Len(raw_ingest) :
       /\ record_dict(raw_ingest[i]) = RowClean
       /\ raw_ingest[i].processed
       /\ \E k \in 1..Len(normalized_events) :
            /\ normalized_events[k].raw_ingest_id = i
            /\ normalized_events[k].region # RowClean.region

\* C7 as the specification words it: no step at all changes the raw fields
\* of a stored row or turns processed from true to false
C7_Original ==
  [][\A i \in 1..Len(raw_ingest) : RowKept(i)]_vars

\* C8 as the specification words it: at most one NormalizedEvents row per
\* raw_ingest row (here for runs that are never killed)
C8_Original ==
  aborts = 0 => \A i \in 1..Len(raw_ingest) : Len(EventsOf(i)) <= 1

\* C9 as the specification words it: when a run has been killed, a row with
\* processed = false has no NormalizedEvents row, and after the next run has
\* finished no row has more than one (here without any upload)
C9_Original ==
  uploads = 0 =>
    /\ pc = "down" =>
         \A i \in 1..Len(raw_ingest) :
           ~raw_ingest[i].processed => EventsOf(i) = <<>>
    /\ pc = "idle" =>
         \A i \in 1..Len(raw_ingest) : Len(EventsOf(i)) = 1

\* C10: rollups are built only when every fetched record is processed, the
\* records are handled one after the other, and the rankings are built from
\* rollups that were rebuilt from the events stored in that run
C10_Barrier ==
  /\ pc \in {"rollups", "rankings"} =>
       \A k \in 1..Len(raw_records) : raw_ingest[raw_records[k]].processed
  /\ pc \in {"attempt", "executor", "critic", "save", "mark", "return"} =>
       \A k \in 1..(idx - 1) : raw_ingest[raw_records[k]].processed
  /\ pc = "rankings" =>
       monthly_company_rollup = generate_monthly_rollups(normalized_events)

\* C10 witness: the first record of a batch failed on all its attempts, the
\* second one was normalized and stored, and the run has reached the rankings
C10_Witness ==
  /\ pc = "rankings"
  /\ Len(raw_records) = 2
  /\ CriticalRecord(raw_records[1])
  /\ raw_ingest[raw_records[1]].processed
  /\ raw_ingest[raw_records[2]].processed
  /\ EventsOf(raw_records[2]) # <<>>
  /\ monthly_company_rollup # <<>>

\* the positions of _process_record inside its while loop, before the save
InLoop == {"attempt", "executor", "critic", "save"}

GpuIn == SampleOf(GpuSamples, raw_ingest[1].gpu_hours_raw)
EnergyIn == SampleOf(EnergySamples, raw_ingest[1].energy_raw)
PueIn == SampleOf(PueSamples, raw_ingest[1].pue_raw)
UtilizationIn == SampleOf(UtilizationSamples, raw_ingest[1].utilization_raw)

\* normalize_record has returned with normalized data
Normalized == pc = "normalized" /\ execution_result.data # EmptyDict

InRange(x, lo, hi) == RLe(lo, x) /\ RLe(x, hi)

\* C12: every normalized record has data_quality in [0,100], utilization in
\* [0,100] and pue_used in [1,3]; a utilization above 100 comes out as exactly
\* 100 with an imputed note and without the "exceeds 100%" error, one of at
\* most 100 comes out unchanged, and a missing or out-of-range PUE comes out
\* as the default 1.3 with an imputed note
C12_NormalizedRanges ==
  Normalized =>
    /\ InRange(execution_result.data.data_quality, RInt(0), RInt(100))
    /\ InRange(execution_result.data.utilization, RInt(0), RInt(100))
    /\ InRange(execution_result.data.pue_used, RInt(1), RInt(3))
    /\ (UtilizationIn.kind = "number" /\ RLt(RInt(100), UtilizationIn.v)) =>
         /\ execution_result.data.utilization = RInt(100)
         /\ execution_result.imputation_log.utilization = NoteImputed
         /\ \A i \in DOMAIN execution_result.errors :
              execution_result.errors[i] # "Utilization exceeds 100%"
    /\ (UtilizationIn.kind = "number" /\ RLe(UtilizationIn.v, RInt(100))) =>
         execution_result.data.utilization = UtilizationIn.v
    /\ (PueIn.kind = "blank"
        \/ (PueIn.kind = "number" /\ ~InRange(PueIn.v, RInt(1), RInt(3)))) =>
         /\ execution_result.data.pue_used = Rat(13, 10)
         /\ execution_result.imputation_log.pue = NoteImputed

\* a record with utilization "120%" and PUE "3.5" normalized successfully
C12_Witness ==
  /\ Normalized
  /\ execution_result.success
  /\ UtilizationIn.v = RInt(120)
  /\ PueIn.v = Rat(7, 2)
  /\ execution_result.data.utilization = RInt(100)
  /\ execution_result.data.pue_used = Rat(13, 10)

\* C13: in every normalized record it_kwh is the energy read from the text
\* when that is above 0 and otherwise gpu_hours x 0.4 x utilization / 100 with
\* the imputation logged, total_kwh is it_kwh x pue_used and tco2e is
\* total_kwh x grid intensity / 1,000,000; 1000 GPU hours at 80% with energy
\* and PUE missing in a 350 g/kWh region give 320, 416 and 0.1456
C13_EnergyChain ==
  Normalized =>
    /\ IF EnergyIn.kind = "number" /\ RLt(RInt(0), EnergyIn.v)
         THEN /\ execution_result.data.it_kwh = EnergyIn.v
              /\ "energy_imputation" \notin DOMAIN execution_result.imputation_log
         ELSE /\ execution_result.data.it_kwh =
                   RMul(RMul(execution_result.data.gpu_hours, Rat(4, 10)),
                        RDiv(execution_result.data.utilization, RInt(100)))
              /\ "energy_imputation" \in DOMAIN execution_result.imputation_log
              /\ execution_result.imputation_log.energy_imputation = NoteImputed
    /\ execution_result.data.gpu_hours =
         (IF GpuIn.kind = "number" THEN GpuIn.v ELSE RInt(0))
    /\ execution_result.data.total_kwh =
         RMul(execution_result.data.it_kwh, execution_result.data.pue_used)
    /\ execution_result.data.tco2e =
         RDiv(RMul(execution_result.data.total_kwh,
                   execution_result.data.intensity_g_per_kwh), RInt(1000000))
    /\ execution_result.data.intensity_g_per_kwh =
         (IF raw_ingest[1].region = "US-East" THEN RInt(350) ELSE RInt(400))
    /\ (/\ GpuIn.v = RInt(1000) /\ UtilizationIn.v = RInt(80)
        /\ EnergyIn.kind = "blank" /\ PueIn.kind = "blank"
        /\ raw_ingest[1].region = "US-East") =>
         /\ execution_result.data.it_kwh = RInt(320)
         /\ execution_result.data.total_kwh = RInt(416)
         /\ execution_result.data.tco2e = Rat(1456, 10000)

\* the record of the example, normalized: energy imputed to 320 kWh
C13_Witness ==
  /\ Normalized
  /\ execution_result.success
  /\ GpuIn.v = RInt(1000) /\ UtilizationIn.v = RInt(80)
  /\ EnergyIn.kind = "blank" /\ PueIn.kind = "blank"
  /\ raw_ingest[1].region = "US-East"
  /\ execution_result.data.it_kwh = RInt(320)
  /\ execution_result.data.tco2e = Rat(1456, 10000)

\* how many fields of the imputation log carry the note
NoteCount(imputation_log, note) ==
  Cardinality({k \in DOMAIN imputation_log : imputation_log[k] = note})

\* max(0, x)
Floor0(x) == IF x < 0 THEN 0 ELSE x

\* the record's texts are all well-formed and in range, energy aside
OnlyEnergyMissing ==
  /\ EnergyIn.kind = "blank"
  /\ GpuIn.kind = "number"
  /\ SampleOf(TokenSamples, raw_ingest[1].tokens_raw).kind = "number"
  /\ SampleOf(ApiSamples, raw_ingest[1].api_calls_raw).kind = "number"
  /\ PueIn.kind = "number" /\ InRange(PueIn.v, RInt(1), RInt(3))
  /\ UtilizationIn.kind = "number" /\ RLe(UtilizationIn.v, RInt(100))

\* C14: the data quality of a normalized record is
\* max(0, 100 - 10 x imputed notes - 20 x error notes); two imputed notes and
\* one error note give 60, and a record whose only defect is a missing energy
\* text carries two imputed notes (the field's and the imputation's) and
\* scores 80
C14_QualityFormula ==
  Normalized =>
    /\ execution_result.data.data_quality =
         RInt(Floor0(100 - 10 * NoteCount(execution_result.imputation_log, NoteImputed)
                         - 20 * NoteCount(execution_result.imputation_log, NoteError)))
    /\ execution_result.quality_score = execution_result.data.data_quality
    /\ (/\ NoteCount(execution_result.imputation_log, NoteImputed) = 2
        /\ NoteCount(execution_result.imputation_log, NoteError) = 1) =>
         execution_result.data.data_quality = RInt(60)
    /\ OnlyEnergyMissing =>
         /\ NoteCount(execution_result.imputation_log, NoteImputed) = 2
         /\ NoteCount(execution_result.imputation_log, NoteError) = 0
         /\ execution_result.imputation_log.energy = NoteImputed
         /\ execution_result.imputation_log.energy_imputation = NoteImputed
         /\ execution_result.data.data_quality = RInt(80)

\* a normalized record with two imputed notes and one error note, scoring 60
C14_Witness ==
  /\ Normalized
  /\ NoteCount(execution_result.imputation_log, NoteImputed) = 2
  /\ NoteCount(execution_result.imputation_log, NoteError) = 1
  /\ execution_result.data.data_quality = RInt(60)

(* ------------------- rollup and ranking properties -------------------- *)

\* the NormalizedEvents rows of one company and month
EventsWithKey(company, month) ==
  SelectSeq(normalized_events, LAMBDA e : e.company = company /\ e.month = month)

\* rollup r holds the sums, averages and derived intensities of its events
RollupOf(r, events) ==
  /\ events # <<>>
  /\ r.total_kwh = RSum(Column(events, "total_kwh"))
  /\ r.tco2e = RSum(Column(events, "tco2e"))
  /\ r.total_tokens = RSum(Column(events, "tokens"))
  /\ r.total_api_calls = RSum(Column(events, "api_calls"))
  /\ r.utilization_avg = RDiv(RSum(Column(events, "utilization")), RInt(Len(events)))
  /\ r.pue_used = RDiv(RSum(Column(events, "pue_used")), RInt(Len(events)))
  /\ r.data_quality = RDiv(RSum(Column(events, "data_quality")), RInt(Len(events)))
  /\ IsNone(r.g_per_1k_tokens) <=> ~RLt(RInt(0), r.total_tokens)
  /\ IsNone(r.g_per_call) <=> ~RLt(RInt(0), r.total_api_calls)
  /\ IsNone(r.tokens_per_tco2e) <=> ~RLt(RInt(0), r.tco2e)
  /\ ~IsNone(r.g_per_1k_tokens) =>
       r.g_per_1k_tokens = RDiv(RMul(r.tco2e, RInt(1000000)),
                                RDiv(r.total_tokens, RInt(1000)))
  /\ ~IsNone(r.g_per_call) =>
       r.g_per_call = RDiv(RMul(r.tco2e, RInt(1000000)), r.total_api_calls)
  /\ ~IsNone(r.tokens_per_tco2e) =>
       r.tokens_per_tco2e = RDiv(r.total_tokens, r.tco2e)

\* C15: after a rollup run there is exactly one rollup for each company and
\* month that has a normalized record and none for another key; its totals
\* are the sums and its utilization, PUE and quality the averages over the
\* records of that key; each derived intensity is defined exactly when its
\* denominator is above zero
C15_RollupPerKey ==
  pc \in {"rankings", "idle"} =>
    /\ \A e \in {normalized_events[i] : i \in 1..Len(normalized_events)} :
         Cardinality({i \in 1..Len(monthly_company_rollup) :
                        /\ monthly_company_rollup[i].company = e.company
                        /\ monthly_company_rollup[i].month = e.month}) = 1
    /\ \A i \in 1..Len(monthly_company_rollup) :
         RollupOf(monthly_company_rollup[i],
                  EventsWithKey(monthly_company_rollup[i].company,
                                monthly_company_rollup[i].month))

\* rollups made of two keys, one of them summing two records, with an
\* undefined intensity and an undefined efficiency among them
C15_Witness ==
  /\ pc = "rankings"
  /\ Len(normalized_events) = 3
  /\ Len(monthly_company_rollup) = 2
  /\ \E i \in 1..2 : IsNone(monthly_company_rollup[i].g_per_1k_tokens)
  /\ \E i \in 1..2 : IsNone(monthly_company_rollup[i].tokens_per_tco2e)
  /\ \E i \in 1..2 : ~IsNone(monthly_company_rollup[i].g_per_1k_tokens)
  /\ \E i \in 1..2 : ~IsNone(monthly_company_rollup[i].g_per_call)

\* the rollups of the latest month, in table order
LatestRollups ==
  SelectSeq(monthly_company_rollup,
            LAMBDA r : \A i \in 1..Len(monthly_company_rollup) :
                          MonthOrd(monthly_company_rollup[i].month) <= MonthOrd(r.month))

\* the defined intensities among the rollups
Intensities(rollups) ==
  SelectSeq(Column(rollups, "g_per_1k_tokens"), LAMBDA x : ~IsNone(x))

\* 1 - value / max, 0 when the max is 0
ScoreAgainst(value, max) ==
  IF RLt(RInt(0), max) THEN RSub(RInt(1), RDiv(value, max)) ELSE RInt(0)

\* clamp(0, 100, 100 x (0.4 x tco2e_score + 0.4 x intensity_score
\*                      + 0.2 x utilization_avg / 100))
Composite(tco2e_score, intensity_score, utilization_avg) ==
  RMin(RInt(100), RMax(RInt(0),
    RMul(RInt(100),
         RAdd(RAdd(RMul(Rat(4, 10), tco2e_score), RMul(Rat(4, 10), intensity_score)),
              RMul(Rat(2, 10), RDiv(utilization_avg, RInt(100)))))))

\* the green score of rollup r with the maxima taken over the rollups of
\* `period` and intensity_score = 1 - intensity / max when both are defined
PeriodScore(r, period) ==
  Composite(ScoreAgainst(r.tco2e, RMaxSeq(Column(period, "tco2e"))),
            IF IsNone(r.g_per_1k_tokens) \/ Intensities(period) = <<>>
              THEN RInt(0)
              ELSE ScoreAgainst(r.g_per_1k_tokens, RMaxSeq(Intensities(period))),
            r.utilization_avg)

\* the rollup a ranking row was made from
RollupFor(ranking) ==
  CHOOSE r \in {monthly_company_rollup[i] : i \in 1..Len(monthly_company_rollup)} :
    r.company = ranking.company /\ r.month = ranking.month

\* a ranking run has just committed its table
Ranked == pc = "idle" /\ rankings # <<>> /\ monthly_company_rollup # <<>>

\* C16 as stated: the green score of every ranked vendor is the composite with
\* the maxima taken over the latest month's rollups only (vendors whose
\* intensity is a defined 0 are left to C17); it fails when an earlier month
\* holds the largest emissions
C16_Original ==
  Ranked =>
    \A i \in 1..Len(rankings) :
      (IsNone(rankings[i].g_per_1k_tokens) \/ Truthy(rankings[i].g_per_1k_tokens)) =>
        rankings[i].green_score = PeriodScore(RollupFor(rankings[i]), LatestRollups)

\* C17 as stated: with the maxima the code takes (over every stored rollup),
\* the green score of every ranked vendor uses intensity_score =
\* 1 - g_per_1k_tokens / max_intensity whenever the vendor's intensity and the
\* maximum are both defined, a defined intensity of 0 included; it fails for a
\* vendor with tokens and zero emissions, whose intensity_score comes out as 0
C17_Original ==
  Ranked =>
    \A i \in 1..Len(rankings) :
      rankings[i].green_score =
        PeriodScore(RollupFor(rankings[i]), monthly_company_rollup)

\* position of the company's rollup among the latest month's rollups
RollupPosition(company) ==
  CHOOSE i \in 1..Len(LatestRollups) : LatestRollups[i].company = company

\* C18: after a ranking run over the n vendors of the latest month the
\* overall ranks are exactly 1..n, each used once; a strictly higher green
\* score has a strictly smaller rank; vendors with equal scores keep the
\* order of their rollups
C18_OverallRanks ==
  Ranked =>
    /\ Len(rankings) = Len(LatestRollups)
    /\ {rankings[i].overall_rank : i \in 1..Len(rankings)} = 1..Len(LatestRollups)
    /\ \A i, j \in 1..Len(rankings) :
         /\ RLt(rankings[j].green_score, rankings[i].green_score) =>
              rankings[i].overall_rank < rankings[j].overall_rank
         /\ (/\ rankings[i].green_score = rankings[j].green_score
             /\ RollupPosition(rankings[i].company) < RollupPosition(rankings[j].company)) =>
              rankings[i].overall_rank < rankings[j].overall_rank

\* three vendors ranked, two of them with equal scores and a third with
\* a different one
C18_Witness ==
  /\ Ranked
  /\ Len(rankings) = 3
  /\ \E i, j \in 1..3 : i # j /\ rankings[i].green_score = rankings[j].green_score
  /\ \E i, j \in 1..3 : RLt(rankings[j].green_score, rankings[i].green_score)

\* 1 + the number of ranked vendors strictly better than ranking row x on
\* metric k; a comparison is skipped only when one of the two values is
\* undefined
CompetitionRank(x, k, lower_is_better) ==
  1 + Cardinality({j \in 1..Len(rankings) :
        /\ ~IsNone(rankings[j][k])
        /\ ~IsNone(x[k])
        /\ IF lower_is_better THEN RLt(rankings[j][k], x[k])
                              ELSE RLt(x[k], rankings[j][k])})

\* C19 as stated: every sub-rank is 1 + the number of ranked vendors strictly
\* better on its metric, a defined 0 taking part in the comparison; it fails
\* for the efficiency rank of a vendor without tokens, whose tokens per tCO2e
\* is a defined 0
C19_Original ==
  Ranked =>
    \A i \in 1..Len(rankings) :
      /\ rankings[i].tco2e_rank = CompetitionRank(rankings[i], "tco2e", TRUE)
      /\ rankings[i].intensity_rank =
           CompetitionRank(rankings[i], "g_per_1k_tokens", TRUE)
      /\ rankings[i].efficiency_rank =
           CompetitionRank(rankings[i], "tokens_per_tco2e", FALSE)
      /\ rankings[i].utilization_rank =
           CompetitionRank(rankings[i], "utilization_avg", FALSE)

\* C20: after a ranking run the stored rankings are exactly one per vendor
\* with a rollup in the latest month, all of that month, with nothing left
\* from an earlier run; generating rollups and rankings again from the same
\* normalized records gives the same rankings
C20_RankingsReplaced ==
  pc = "idle" =>
    /\ Len(rankings) = Len(LatestRollups)
    /\ \A i \in 1..Len(LatestRollups) :
         Cardinality({j \in 1..Len(rankings) :
                        /\ rankings[j].company = LatestRollups[i].company
                        /\ rankings[j].month = LatestRollups[i].month}) = 1
    /\ normalized_events # <<>> =>
         rankings = generate_rankings(generate_monthly_rollups(normalized_events))

\* a second run, started by an upload for a new month, has replaced the two
\* rankings of the first run by the one of the new month
C20_Witness ==
  /\ pc = "idle"
  /\ uploads = 1 /\ aborts = 0
  /\ Len(monthly_company_rollup) = 3
  /\ Len(rankings) = 1
  /\ rankings[1].month = "2024-02"
  /\ \E i \in 1..3 : monthly_company_rollup[i].month = "2024-01"

(* ------------------------- planner properties -------------------------- *)

\* detect_issues has returned for the record
Detected == pc \in {"detected", "executed"}

\* the raw record the planner was given
PlannerRecord == record_dict(raw_ingest[1])

\* how many issues of a type a detection result holds
IssuesOfType(result, type) ==
  Cardinality({i \in 1..Len(result.issues) : result.issues[i].type = type})

\* the text holds one of [0-9.] directly followed by one of k K m M b B
HasNumericSuffix(s) ==
  \E i \in 1..(Len(s) - 1) :
    /\ s[i] \in NumChars
    /\ s[i + 1] \in {"k", "K", "m", "M", "b", "B"}

\* the text is one or more digits and nothing else
PlainInteger(s) == s # <<>> /\ \A i \in 1..Len(s) : s[i] \in Digits

\* C21 as stated: detect_issues reports a mixed_units issue exactly when the
\* energy text holds both MWh and kWh, and so none for a blank energy text; it
\* fails both ways, the blank text is reported and the two-unit text is not
C21_Original ==
  Detected =>
    (IssuesOfType(detection_result, "mixed_units") > 0
       <=> /\ Contains(PlannerRecord.energy_raw, <<"M","W","h">>)
           /\ Contains(PlannerRecord.energy_raw, <<"k","W","h">>))

\* C22 as stated: detect_issues reports a fuzzy_tokens issue exactly when the
\* tokens text holds a digit or point followed by k/K/m/M/b/B, so a blank tokens
\* text yields the one issue missing_tokens; it fails both ways
C22_Original ==
  Detected =>
    /\ IssuesOfType(detection_result, "fuzzy_tokens") > 0
         <=> HasNumericSuffix(PlannerRecord.tokens_raw)
    /\ IsBlank(PlannerRecord.tokens_raw) =>
         /\ IssuesOfType(detection_result, "missing_tokens") = 1
         /\ Cardinality({i \in 1..Len(detection_result.issues) :
                           detection_result.issues[i].field = "tokens_raw"}) = 1

\* C23 as stated: detect_issues reports invalid_utilization exactly for the
\* utilization texts that are blank, not a number in [0,100] once the % is
\* removed, or digits only; it fails for the digits-only text 85
C23_Original ==
  Detected =>
    (IssuesOfType(detection_result, "invalid_utilization") > 0
       <=> \/ ~is_valid_utilization(PlannerRecord.utilization_raw)
           \/ PlainInteger(PlannerRecord.utilization_raw))

\* C24 as stated: the confidence of every detection result is
\* max(0.1, 0.9 - 0.1 x issue_count - severity_penalty), in hundredths; it fails
\* for the results of six and seven issues
C24_Original ==
  Detected =>
    LET c == 90 - 10 * Len(detection_result.issues)
                - 10 * severity_levels(detection_result.severity)
    IN /\ detection_result.confidence = (IF c < 10 THEN 10 ELSE c)
       /\ detection_result.confidence \in 10..90

\* normalize_record has returned with the utilization field normalized
UtilizationNoted ==
  pc = "normalized" /\ "utilization" \in DOMAIN execution_result.imputation_log

\* the quality points the notes of every field but utilization take off
OtherFieldsPenalty ==
  LET others == [k \in DOMAIN execution_result.imputation_log \ {"utilization"} |->
                   execution_result.imputation_log[k]]
  IN 10 * NoteCount(others, NoteImputed) + 20 * NoteCount(others, NoteError)

\* C25: a blank utilization text (empty or blanks only) is normalized to 0
\* with an imputed note and costs 10 quality points; a text without any digit
\* is normalized to 0 with an error note and costs 20
C25_UtilizationNotes ==
  UtilizationNoted =>
    /\ UtilizationIn.kind = "blank" =>
         /\ execution_result.imputation_log.utilization = NoteImputed
         /\ execution_result.data.utilization = RInt(0)
         /\ execution_result.quality_score = RInt(Floor0(100 - OtherFieldsPenalty - 10))
    /\ UtilizationIn.kind = "garbage" =>
         /\ execution_result.imputation_log.utilization = NoteError
         /\ execution_result.data.utilization = RInt(0)
         /\ execution_result.quality_score = RInt(Floor0(100 - OtherFieldsPenalty - 20))

\* a record with a blanks-only utilization text has been normalized, and the
\* 10 points of its imputed note show in a positive quality score
C25_Witness ==
  /\ UtilizationNoted
  /\ raw_ingest[1].utilization_raw = <<" ", " ">>
  /\ execution_result.imputation_log.utilization = NoteImputed
  /\ execution_result.quality_score = RInt(100 - OtherFieldsPenalty - 10)
  /\ RLt(RInt(0), execution_result.quality_score)

\* C25 as stated: a blank or unparseable utilization text is normalized to 0
\* with an error note and costs 20 quality points; it fails for the blank text
C25_Original ==
  UtilizationNoted =>
    (UtilizationIn.kind \in {"blank", "garbage"} =>
       /\ execution_result.imputation_log.utilization = NoteError
       /\ execution_result.data.utilization = RInt(0)
       /\ execution_result.quality_score = RInt(Floor0(100 - OtherFieldsPenalty - 20)))

(* --------------------- imputation-log properties ----------------------- *)

\* the critic has judged a successful execution of the record in work
CriticJudged ==
  /\ pc \in {"attempt", "save", "mark", "return"}
  /\ critique_result # EmptyDict
  /\ execution_result # EmptyDict
  /\ execution_result.success

HasIssue(issues, type) == \E i \in 1..Len(issues) : issues[i].type = type

\* C26 as stated: whenever the normalization of a record imputed more than 3
\* fields the critic's issues hold excessive_imputations, and whenever the
\* quality is below 70 they hold low_quality; it fails for a record with five
\* imputed notes, whose issues hold low_quality alone
C26_Original ==
  CriticJudged =>
    /\ NoteCount(NormalizedOf(cur).imputation_log, NoteImputed) > 3 =>
         HasIssue(critique_result.issues, "excessive_imputations")
    /\ RLt(execution_result.normalized_data.data_quality, RInt(quality_threshold)) =>
         HasIssue(critique_result.issues, "low_quality")

\* C27 as stated: a stored NormalizedEvents row of quality below 100 never has
\* an empty imputation_log; it fails for every such row
C27_Original ==
  \A k \in 1..Len(normalized_events) :
    RLt(normalized_events[k].data_quality, RInt(100)) =>
      normalized_events[k].imputation_log # EmptyDict

(* ------------------------ retry-log properties ------------------------- *)

\* the step appends one processing-log row for the record in work, carrying
\* the retry_count the attempt ran with
LogsAttempt ==
  /\ Len(processing_log') = Len(processing_log) + 1
  /\ SubSeq(processing_log', 1, Len(processing_log)) = processing_log
  /\ processing_log'[Len(processing_log')].company = raw_ingest[cur].company
  /\ processing_log'[Len(processing_log')].month = raw_ingest[cur].month
  /\ processing_log'[Len(processing_log')].retry_count = retry_count

\* a step of the retry loop: an attempt that ends in a retry logs a row with
\* its retry_count, and retry_count never goes down
RetryStepLogged ==
  (pc \in InLoop /\ pc' \in InLoop) =>
    /\ retry_count' >= retry_count
    /\ retry_count' > retry_count => LogsAttempt

\* the step in which the data go on to the save although the critic did not
\* pass them (the ceiling is reached) logs a row
DegradedAcceptanceLogged ==
  (pc = "critic" /\ pc' = "save" /\ ~critique_result'.passed) => LogsAttempt

\* the step that leaves the loop with retry_count > max_retries logs a row
GiveUpLogged ==
  (pc = "attempt" /\ pc' = "return") => LogsAttempt

\* C28 as stated: every attempt that ends in a retry logs a row with its
\* retry_count before the next attempt, the retry_count never decreases, and
\* the final degraded acceptance or give-up is logged; it fails for the
\* give-up, which writes no row
C28_Original ==
  [][RetryStepLogged /\ DegradedAcceptanceLogged /\ GiveUpLogged]_vars

(* ------------------------- executor properties ------------------------- *)

\* execute_normalization has returned for the record
Executed == pc = "executed"

\* the log entries the planned actions must leave, in the order planned
ActionEntries(actions) ==
  [i \in 1..Len(actions) |->
     [stage |-> "action_application", action |-> actions[i].action,
      field |-> actions[i].field]]

\* the execution log is the start entry, one entry per priority action, the
\* normalization entry and, after a success, one entry per fallback action
LogInOrder ==
  LET log == execution_result.execution_log
      np == Len(strategy.priority_actions)
      nf == IF execution_result.success THEN Len(strategy.fallback_actions) ELSE 0
  IN /\ Len(log) = 2 + np + nf
     /\ log[1].stage = "normalization_start"
     /\ SubSeq(log, 2, 1 + np) = ActionEntries(strategy.priority_actions)
     /\ log[2 + np].stage = (IF execution_result.success
                               THEN "normalization_complete"
                               ELSE "normalization_failed")
     /\ execution_result.success =>
          SubSeq(log, 3 + np, Len(log)) = ActionEntries(strategy.fallback_actions)

\* the success flag and the data are those of normalize_record alone
ResultOfNormalizerAlone ==
  LET normalization_result == NormalizedOf(1)
  IN /\ execution_result.success = normalization_result.success
     /\ execution_result.normalized_data =
          (IF normalization_result.success THEN normalization_result.data
           ELSE EmptyDict)

\* C29: whatever strategy of the planner execute_normalization is given for a
\* record, its success flag and its normalized data are those normalize_record
\* yields for the record and the grid intensity; the planned actions only leave
\* log entries, the priority ones before the normalization entry and the
\* fallback ones after it, and the call leaves the raw record as it was
C29_StrategyOnlyLogs ==
  /\ [](Executed => ResultOfNormalizerAlone /\ LogInOrder)
  /\ [][pc = "detected" => raw_ingest' = raw_ingest]_vars

\* an execution under a strategy planned for another record, with priority
\* and fallback actions, that succeeded
C29_Witness ==
  /\ Executed
  /\ strategy # plan_normalization_strategy(detection_result)
  /\ strategy.priority_actions # <<>>
  /\ strategy.fallback_actions # <<>>
  /\ \E i \in 1..Len(strategy.fallback_actions) :
       strategy.fallback_actions[i].action = "mark_na"
  /\ execution_result.success
  /\ RLt(RInt(0), execution_result.normalized_data.tokens)

(* ------------------------ determinism of attempts ---------------------- *)

\* a processing-log row without its retry_count
RowKind(row) == [company |-> row.company, month |-> row.month,
                 stage |-> row.stage, action |-> row.action]

\* no attempt of the run was cut short by an exception of the store
Undisturbed == faults = 0

====
